---- MODULE Spec2Model ----
(***************************************************************************)
(* Model of ddr-remap: the calibration state machine and hold repeater of  *)
(* ddr_mac_handler.py, the HID report loop of src/main.py and the report   *)
(* processing of src/ddr_gamepad_reader.py.                                *)
(*                                                                         *)
(*   Spec        ddr_mac_handler.py, every handler run to completion       *)
(*               (events handled one at a time, timer callbacks atomic).   *)
(*   SpecThreads ddr_mac_handler.py, input thread and timer threads        *)
(*               interleaved statement by statement.                       *)
(*   SpecReports one reader of src/main.py (_hid_device_loop) or of        *)
(*               src/ddr_gamepad_reader.py (_process_input), fed reports.  *)
(*   SpecPrograms the three programs side by side: Spec or SpecReports,    *)
(*               according to the script that was started.                 *)
(*   SpecSession src/main.py run(): start_hid_logging on an enumeration    *)
(*               result, then the command thread, the idle loop, the       *)
(*               reader threads and cleanup.  SpecSessionFair adds the     *)
(*               scheduling of the threads.                                *)
(***************************************************************************)
EXTENDS Integers, Sequences, FiniteSets, TLC

VARIABLES
    \* ---- ddr_mac_handler.py: DDRPadHandler fields
    calibration_mode,     \* self.calibration_mode
    calibration_step,     \* self.calibration_step
    calibrated_devices,   \* self.calibrated_devices (list)
    device_assignments,   \* self.device_assignments: device id -> player
    held_keys,            \* self.held_keys: <<device, direction>> -> timer index
    timers,               \* the threading.Timer objects that are alive
    running,              \* self.running
    \* ---- observation of one step
    out,                  \* send_player_input emissions made by the last step
    dialog,               \* title of the messagebox shown by the last step
    lastOp,               \* the operation the last step performed
    \* ---- history
    calStarted,           \* start_calibration has been issued
    pressOrder,           \* devices in order of first press since start_calibration
    released,             \* keys whose stop_hold_input returned, no press since
    \* ---- threads of ddr_mac_handler.py
    input_pc,             \* position of the input thread
    \* ---- src/main.py and src/ddr_gamepad_reader.py
    program,              \* which script is running
    pad_index,            \* dev_info['pad_index'] / which PadMapping
    emitter,              \* output path of emit: "vk", "quartz" or "log"
    prev_keys,            \* _hid_device_loop local prev_keys
    held_dirs,            \* _hid_device_loop local held_dirs
    vk_last,              \* report most recently sent to the virtual keyboard
    button_states,        \* DDRPadReader.button_states
    \* ---- observation of one read
    events,               \* DOWN / UP events printed by the last read
    vk_sends,             \* send_usages calls made by the last read
    cg_posted,            \* Quartz key events posted by the last read
    kbd,                  \* keyboard.press/release calls made by the last read
    \* ---- history
    last_report,          \* the latest non-empty report read
    had_data,             \* the last read returned data
    repeated,             \* the last read returned the same report as the one before
    \* ---- main thread of ddr_mac_handler.py and of src/main.py
    main_pc,              \* position of the main thread
    \* ---- history of the events of ddr_mac_handler.py
    last_hat,             \* the hat motion to a direction that was the latest event
    \* ---- src/main.py: run() and start_hid_logging
    devices,              \* what hid.enumerate will return
    serials,              \* start_hid_logging local serials, after line 315
    hid_devices,          \* self.hid_devices, with the state of each reader thread
    hid_log,              \* pads that start_hid_logging reported as skipped
    started_hid,          \* start_hid_logging has returned True
    command_pc,           \* position of the command thread
    eof_seen,             \* the command stream has ended
    \* ---- src/main.py: the two reader threads side by side
    platform,             \* IOKIT_AVAILABLE and the Quartz functions of the imports
    readers,              \* pad_index -> the locals of that pad's _hid_device_loop
    virtual_keyboards,    \* self.virtual_keyboards: slot -> report it was sent last
    last_read,            \* what the last iteration of a reader did
    \* ---- history of the emit calls of src/main.py (SpecEmit)
    quartz_down           \* keycodes that are down by the Quartz events posted so far

macVars == <<calibration_mode, calibration_step, calibrated_devices,
             device_assignments, held_keys, timers, running, out, dialog,
             lastOp, calStarted, pressOrder, released, input_pc>>
reportVars == <<program, pad_index, emitter, prev_keys, held_dirs, vk_last,
                button_states, events, vk_sends, cg_posted, kbd,
                last_report, had_data, repeated>>
readersVars == <<platform, readers, virtual_keyboards, last_read, quartz_down>>
startupVars == <<devices, serials, hid_devices, hid_log, started_hid, command_pc, eof_seen,
                 readersVars>>
otherVars == <<startupVars, main_pc, last_hat>>
vars == <<calibration_mode, calibration_step, calibrated_devices,
          device_assignments, held_keys, timers, running, out, dialog,
          lastOp, calStarted, pressOrder, released, input_pc,
          program, pad_index, emitter, prev_keys, held_dirs, vk_last,
          button_states, events, vk_sends, cg_posted, kbd,
          last_report, had_data, repeated,
          main_pc, last_hat,
          devices, serials, hid_devices, hid_log, started_hid, command_pc, eof_seen,
          platform, readers, virtual_keyboards, last_read, quartz_down>>

-----------------------------------------------------------------------------
(* Bounds *)

\* device instance ids are 0 .. NumDevices-1
NumDevices == 2
\* joystick button indices are 0 .. MaxButton (0..3 are mapped)
MaxButton == 4
\* timer objects that may be alive for one key at a time
MaxChains == 2
\* Spec: keys that may be held at a time, over all devices
MaxHeld == 1
\* SpecThreads: timer objects that may be alive at a time, over all keys
MaxHolds == 2
\* SpecThreads: the pads press and release buttons 0 .. MaxThreadButton
MaxThreadButton == 0
\* SpecReports: key codes held at once in a report of src/main.py
MaxKeys == 2
\* SpecReports: first byte of a report of ddr_gamepad_reader is 0 .. MaxButtonByte
MaxButtonByte == 16
\* SpecSession: descriptors in the list returned by hid.enumerate
MaxInfos == 3

Devices == 0 .. (NumDevices - 1)
None == "None"
Directions == {"left", "down", "up", "right"}
EmptyMap == [x \in {} |-> 0]

-----------------------------------------------------------------------------
(* ddr_mac_handler.py: configuration and pure functions *)

p1_keys == [left |-> "Key.left", down |-> "Key.down", up |-> "Key.up", right |-> "Key.right"]

\* a player-2 table that uses an arrow key of player 1
p2_keys_shares_left == [left |-> "Key.left", down |-> "Key.f2", up |-> "Key.f3", right |-> "Key.f4"]

p2_keys == [left |-> "Key.f1", down |-> "Key.f2", up |-> "Key.f3", right |-> "Key.f4"]

button_map == (0 :> "left") @@ (1 :> "down") @@ (2 :> "up") @@ (3 :> "right")

key_map == [a |-> "left", s |-> "down", w |-> "up", d |-> "right", x |-> "down"]

\* a pygame event: type, joystick button, hat value, keyboard key
PygameEvent(type, button, value, key) ==
    [type |-> type, button |-> button, value |-> value, key |-> key]

get_direction_from_input(event) ==
    IF event.type \in {"JOYBUTTONDOWN", "JOYBUTTONUP"}
    THEN IF event.button \in DOMAIN button_map THEN button_map[event.button] ELSE None
    ELSE IF event.type = "JOYHATMOTION"
    THEN IF event.value[1] = -1 THEN "left"
         ELSE IF event.value[1] = 1 THEN "right"
         ELSE IF event.value[2] = 1 THEN "up"
         ELSE IF event.value[2] = -1 THEN "down"
         ELSE None
    ELSE IF event.type \in {"KEYDOWN", "KEYUP"}
    THEN IF event.key \in DOMAIN key_map THEN key_map[event.key] ELSE None
    ELSE None

\* input_loop, lines 275-276
is_pressed_of(event) ==
    \/ event.type \in {"JOYBUTTONDOWN", "KEYDOWN"}
    \/ (event.type = "JOYHATMOTION" /\ event.value # <<0, 0>>)

\* the emissions of one send_player_input(player, direction) call made for device_id
send_player_input(device_id, player, direction) ==
    LET table == IF player = 1 THEN p1_keys ELSE p2_keys
    IN  IF player \in {1, 2} /\ direction \in DOMAIN table
        THEN << [key |-> <<device_id, direction>>, player |-> player, sym |-> table[direction]] >>
        ELSE << >>

\* timer objects of one key
TimersOf(key_id) == {t \in timers : t.key = key_id}

\* index given to a new Timer object of key_id
NewTimerIndex(key_id) ==
    CHOOSE n \in 1 .. MaxChains :
        /\ \A t \in TimersOf(key_id) : t.n # n
        /\ \A m \in 1 .. (n - 1) : \E t \in TimersOf(key_id) : t.n = m

\* Spec: a press that reaches start_hold_input can be taken
CanHold(key_id) ==
    /\ Cardinality(TimersOf(key_id)) < MaxChains
    /\ key_id \in DOMAIN held_keys \/ Cardinality(DOMAIN held_keys) < MaxHeld

\* SpecThreads: a press that reaches start_hold_input can be taken: a Timer
\* object can still be created for the key
CanHoldThreads(key_id) ==
    /\ Cardinality(TimersOf(key_id)) < MaxChains
    /\ key_id \in DOMAIN held_keys \/ Cardinality(timers) < MaxHolds

MapRemove(f, k) == [x \in (DOMAIN f) \ {k} |-> f[x]]
MapPut(f, k, v) == [x \in (DOMAIN f) \cup {k} |-> IF x = k THEN v ELSE f[x]]

\* position of the input thread: between events, or inside start_hold_input /
\* stop_hold_input for key <<dev, dir>>
InputAt(pc, dev, dir, player, n) ==
    [pc |-> pc, dev |-> dev, dir |-> dir, player |-> player, n |-> n]

InputIdle == InputAt("idle", -1, None, 0, 0)

Op(op, dev, dir, route) ==
    [op |-> op, dev |-> dev, dir |-> dir, route |-> route]

\* a hat motion to a direction, kept until the next event of input_loop: the
\* device whose hat moved and the direction it decodes to
HatNote(device_id, event) ==
    IF event.type = "JOYHATMOTION" /\ get_direction_from_input(event) # None
    THEN [dev |-> device_id, dir |-> get_direction_from_input(event)]
    ELSE [dev |-> -1, dir |-> None]

NoHat == [dev |-> -1, dir |-> None]

-----------------------------------------------------------------------------
(* ddr_mac_handler.py: handlers, each run to completion *)

binderVars == <<calibration_mode, calibration_step, calibrated_devices, device_assignments>>
holdVars == <<held_keys, timers>>

\* start_calibration that keeps the old bindings
start_calibration_keeps_assignments ==
    /\ calibration_mode' = TRUE
    /\ calibration_step' = 1
    /\ calibrated_devices' = << >>
    /\ device_assignments' = device_assignments
    /\ dialog' = "Calibration Started"

\* start_calibration that keeps the list of calibrated devices
start_calibration_keeps_calibrated ==
    /\ calibration_mode' = TRUE
    /\ calibration_step' = 1
    /\ calibrated_devices' = calibrated_devices
    /\ device_assignments' = EmptyMap
    /\ dialog' = "Calibration Started"

start_calibration ==
    /\ calibration_mode' = TRUE
    /\ calibration_step' = 1
    /\ calibrated_devices' = << >>
    /\ device_assignments' = EmptyMap
    /\ dialog' = "Calibration Started"

\* end_calibration that leaves calibration mode on
end_calibration_skipped ==
    calibration_mode' = calibration_mode

end_calibration ==
    calibration_mode' = FALSE

\* the comparison of line 227 accepting every device
is_other_device_always(device_id) ==
    TRUE

\* line 227: the pressing device is not the one registered in step 1
is_other_device(device_id) ==
    device_id # calibrated_devices[1]

handle_calibration_input(device_id, direction) ==
    IF calibration_step = 1
    THEN /\ device_assignments' = MapPut(device_assignments, device_id, 1)
         /\ calibrated_devices' = Append(calibrated_devices, device_id)
         /\ calibration_step' = 2
         /\ dialog' = "Step 1 Complete"
         /\ UNCHANGED calibration_mode
    ELSE IF calibration_step = 2
    THEN IF is_other_device(device_id)
         THEN /\ device_assignments' = MapPut(device_assignments, device_id, 2)
              /\ calibrated_devices' = Append(calibrated_devices, device_id)
              /\ dialog' = "Calibration Complete!"
              /\ end_calibration
              /\ UNCHANGED calibration_step
         ELSE /\ dialog' = "Same Device"
              /\ UNCHANGED binderVars
    ELSE /\ dialog' = None
         /\ UNCHANGED binderVars

\* the check of line 168 never finding the key
already_holding_never(key_id) ==
    FALSE

\* line 168: a timer is registered for the key
already_holding(key_id) ==
    key_id \in DOMAIN held_keys

start_hold_input(device_id, player, direction) ==
    LET key_id == <<device_id, direction>>
    IN  IF already_holding(key_id)
        THEN /\ out' = << >>
             /\ UNCHANGED holdVars
        ELSE LET n == NewTimerIndex(key_id)
             IN  /\ out' = send_player_input(device_id, player, direction)
                 /\ timers' = timers \cup {[key |-> key_id, player |-> player, n |-> n, pc |-> "waiting"]}
                 /\ held_keys' = MapPut(held_keys, key_id, n)

\* Timer.cancel() on the timer object of key_id with index n
Cancelled(key_id, n) ==
    {t \in timers : ~(t.key = key_id /\ t.n = n /\ t.pc \in {"new", "waiting", "start"})}

stop_hold_input(device_id, direction) ==
    LET key_id == <<device_id, direction>>
    IN  IF key_id \in DOMAIN held_keys
        THEN /\ timers' = Cancelled(key_id, held_keys[key_id])
             /\ held_keys' = MapRemove(held_keys, key_id)
        ELSE UNCHANGED holdVars

\* which branch of process_input an event takes
Route(device_id, direction, is_pressed) ==
    IF direction = None THEN "no_direction"
    ELSE IF calibration_mode THEN (IF is_pressed THEN "calibration" ELSE "consumed")
    ELSE IF device_id \notin DOMAIN device_assignments THEN "unknown_device"
    ELSE IF is_pressed THEN "start_hold" ELSE "stop_hold"

process_input(device_id, direction, is_pressed) ==
    LET route == Route(device_id, direction, is_pressed)
    IN  /\ lastOp' = Op("event", device_id, direction, route)
        /\ CASE route = "calibration" ->
                  /\ handle_calibration_input(device_id, direction)
                  /\ out' = << >>
                  /\ UNCHANGED holdVars
             [] route = "start_hold" ->
                  /\ start_hold_input(device_id, device_assignments[device_id], direction)
                  /\ dialog' = None
                  /\ UNCHANGED binderVars
             [] route = "stop_hold" ->
                  /\ stop_hold_input(device_id, direction)
                  /\ out' = << >>
                  /\ dialog' = None
                  /\ UNCHANGED binderVars
             [] OTHER ->
                  /\ out' = << >>
                  /\ dialog' = None
                  /\ UNCHANGED <<binderVars, holdVars>>

\* the callback of a Timer, lines 175-181, run to completion
repeat_input(t) ==
    IF t.key \in DOMAIN held_keys /\ running
    THEN /\ out' = send_player_input(t.key[1], t.player, t.key[2])
         /\ held_keys' = MapPut(held_keys, t.key, t.n)
         /\ timers' = (timers \ {t}) \cup {[t EXCEPT !.pc = "waiting"]}
    ELSE /\ out' = << >>
         /\ timers' = timers \ {t}
         /\ UNCHANGED held_keys

-----------------------------------------------------------------------------
(* History kept for the properties *)

\* a press event of a device: first presses since start_calibration, in order
NotePress(device_id, direction, is_pressed) ==
    IF calStarted /\ direction # None /\ is_pressed
       /\ Len(pressOrder) < 2
       /\ \A i \in 1 .. Len(pressOrder) : pressOrder[i] # device_id
    THEN pressOrder' = Append(pressOrder, device_id)
    ELSE UNCHANGED pressOrder

-----------------------------------------------------------------------------
(* Spec: the steps of ddr_mac_handler.py, one handler at a time *)

\* input_loop, lines 257-278, for one event of a joystick
InputEvent(device_id, event) ==
    LET direction == get_direction_from_input(event)
        is_pressed == is_pressed_of(event)
    IN  /\ running
        /\ Route(device_id, direction, is_pressed) = "start_hold" =>
               CanHold(<<device_id, direction>>)
        /\ process_input(device_id, direction, is_pressed)
        /\ NotePress(device_id, direction, is_pressed)
        /\ last_hat' = HatNote(device_id, event)
        /\ UNCHANGED <<running, calStarted, released, input_pc>>
        /\ UNCHANGED <<reportVars, startupVars, main_pc>>

JoyButton ==
    \E device_id \in Devices, type \in {"JOYBUTTONDOWN", "JOYBUTTONUP"}, button \in 0 .. MaxButton :
        InputEvent(device_id, PygameEvent(type, button, <<0, 0>>, None))

JoyHat ==
    \E device_id \in Devices, x \in {-1, 0, 1}, y \in {-1, 0, 1} :
        InputEvent(device_id, PygameEvent("JOYHATMOTION", -1, <<x, y>>, None))

\* run(), lines 371-372: the operator command 'c'
CommandCalibrate ==
    /\ running
    /\ start_calibration
    /\ out' = << >>
    /\ lastOp' = Op("start_calibration", -1, None, None)
    /\ calStarted' = TRUE
    /\ pressOrder' = << >>
    /\ UNCHANGED <<holdVars, running, released, input_pc>>
    /\ UNCHANGED <<reportVars, otherVars>>

\* a Timer fires and runs its callback
TimerFire ==
    \E t \in timers :
        /\ t.pc = "waiting"
        /\ repeat_input(t)
        /\ lastOp' = Op("timer", t.key[1], t.key[2], None)
        /\ dialog' = None
        /\ UNCHANGED <<binderVars, running, calStarted, pressOrder, released, input_pc>>
        /\ UNCHANGED <<reportVars, otherVars>>

InitMac ==
    /\ calibration_mode = FALSE
    /\ calibration_step = 0
    /\ calibrated_devices = << >>
    /\ device_assignments = EmptyMap
    /\ held_keys = EmptyMap
    /\ timers = {}
    /\ running = TRUE
    /\ out = << >>
    /\ dialog = None
    /\ lastOp = Op("init", -1, None, None)
    /\ calStarted = FALSE
    /\ pressOrder = << >>
    /\ released = {}
    /\ input_pc = InputIdle

NoEvents == [down |-> [d \in Directions |-> 0], up |-> [d \in Directions |-> 0]]

\* the locals of _hid_device_loop and the fields of DDRPadReader at their start
InitReaderState ==
    /\ prev_keys = {}
    /\ held_dirs = {}
    /\ vk_last = << >>
    /\ button_states = EmptyMap
    /\ events = NoEvents
    /\ vk_sends = 0
    /\ cg_posted = {}
    /\ kbd = << >>
    /\ last_report = << >>
    /\ had_data = FALSE
    /\ repeated = FALSE

InitReportsIdle ==
    /\ program = "ddr_mac_handler"
    /\ pad_index = 0
    /\ emitter = None
    /\ InitReaderState

\* no iteration of a reader thread has been observed
NoRead == [pad |-> 0, raised |-> FALSE, events |-> NoEvents, vk_sends |-> 0, cg_posted |-> {}]

\* no reader thread of src/main.py exists
InitReadersIdle ==
    /\ platform = [iokit |-> FALSE, quartz |-> FALSE]
    /\ readers = << >>
    /\ virtual_keyboards = EmptyMap
    /\ last_read = NoRead
    /\ quartz_down = {}

\* the main thread in the command loop of run(); nothing of src/main.py started
InitOtherIdle ==
    /\ main_pc = "command"
    /\ last_hat = NoHat
    /\ devices = << >>
    /\ serials = << >>
    /\ hid_devices = << >>
    /\ hid_log = << >>
    /\ started_hid = FALSE
    /\ command_pc = "not_started"
    /\ eof_seen = FALSE
    /\ InitReadersIdle

Init == InitMac /\ InitReportsIdle /\ InitOtherIdle

Next == JoyButton \/ JoyHat \/ CommandCalibrate \/ TimerFire

Spec == Init /\ [][Next]_vars

-----------------------------------------------------------------------------
(* SpecThreads: ddr_mac_handler.py with the input thread (input_loop) and  *)
(* the Timer threads (repeat_input) interleaved statement by statement.    *)
(* The operator command 'c' runs start_calibration in one step; 'q' runs    *)
(* cleanup on the main thread, statement by statement.  lastOp, calStarted *)
(* and pressOrder are not kept here.                                       *)

StepTimer(t, pc) == (timers \ {t}) \cup {[t EXCEPT !.pc = pc]}

\* input_loop takes one event; process_input runs up to the test of held_keys
\* in start_hold_input (line 168) or stop_hold_input (line 192)
T_InputEvent(device_id, event) ==
    LET direction == get_direction_from_input(event)
        is_pressed == is_pressed_of(event)
        key_id == <<device_id, direction>>
        route == Route(device_id, direction, is_pressed)
    IN  /\ running
        /\ input_pc.pc = "idle"
        /\ route = "start_hold" => CanHoldThreads(key_id)
        /\ out' = << >>
        /\ CASE route = "calibration" ->
                  /\ handle_calibration_input(device_id, direction)
                  /\ released' = released \ {key_id}
                  /\ UNCHANGED input_pc
             [] route = "start_hold" ->
                  /\ input_pc' = IF already_holding(key_id)
                                 THEN InputIdle
                                 ELSE InputAt("hold_send", device_id, direction,
                                              device_assignments[device_id], 0)
                  /\ released' = released \ {key_id}
                  /\ dialog' = None
                  /\ UNCHANGED binderVars
             [] route = "stop_hold" ->
                  /\ IF key_id \in DOMAIN held_keys
                     THEN /\ input_pc' = InputAt("stop_cancel", device_id, direction, 0, 0)
                          /\ UNCHANGED released
                     ELSE /\ released' = released \cup {key_id}
                          /\ UNCHANGED input_pc
                  /\ dialog' = None
                  /\ UNCHANGED binderVars
             [] OTHER ->
                  /\ released' = IF is_pressed /\ direction # None
                                 THEN released \ {key_id} ELSE released
                  /\ dialog' = None
                  /\ UNCHANGED <<binderVars, input_pc>>
        /\ UNCHANGED <<holdVars, running, lastOp, calStarted, pressOrder>>
        /\ UNCHANGED <<reportVars, otherVars>>

T_JoyButton ==
    \E device_id \in Devices, type \in {"JOYBUTTONDOWN", "JOYBUTTONUP"}, button \in 0 .. MaxThreadButton :
        T_InputEvent(device_id, PygameEvent(type, button, <<0, 0>>, None))

threadFrame == <<binderVars, running, lastOp, calStarted, pressOrder>>

\* start_hold_input line 172: the initial press
T_HoldSend ==
    /\ input_pc.pc = "hold_send"
    /\ out' = send_player_input(input_pc.dev, input_pc.player, input_pc.dir)
    /\ input_pc' = [input_pc EXCEPT !.pc = "hold_arm"]
    /\ dialog' = None
    /\ UNCHANGED <<holdVars, released, threadFrame>>
    /\ UNCHANGED <<reportVars, otherVars>>

\* start_hold_input lines 184-185: create the Timer, register it
T_HoldArm ==
    LET key_id == <<input_pc.dev, input_pc.dir>>
        n == NewTimerIndex(key_id)
    IN  /\ input_pc.pc = "hold_arm"
        /\ timers' = timers \cup {[key |-> key_id, player |-> input_pc.player, n |-> n, pc |-> "new"]}
        /\ held_keys' = MapPut(held_keys, key_id, n)
        /\ input_pc' = [input_pc EXCEPT !.pc = "hold_start", !.n = n]
        /\ out' = << >>
        /\ dialog' = None
        /\ UNCHANGED <<released, threadFrame>>
        /\ UNCHANGED <<reportVars, otherVars>>

\* start_hold_input line 186: timer.start(); a cancelled Timer never fires
T_HoldStart ==
    LET key_id == <<input_pc.dev, input_pc.dir>>
    IN  /\ input_pc.pc = "hold_start"
        /\ timers' = {IF t.key = key_id /\ t.n = input_pc.n /\ t.pc = "new"
                      THEN [t EXCEPT !.pc = "waiting"] ELSE t : t \in timers}
        /\ input_pc' = InputIdle
        /\ out' = << >>
        /\ dialog' = None
        /\ UNCHANGED <<held_keys, released, threadFrame>>
        /\ UNCHANGED <<reportVars, otherVars>>

\* stop_hold_input line 193: self.held_keys[key_id].cancel()
T_StopCancel ==
    LET key_id == <<input_pc.dev, input_pc.dir>>
    IN  /\ input_pc.pc = "stop_cancel"
        /\ key_id \in DOMAIN held_keys
        /\ timers' = Cancelled(key_id, held_keys[key_id])
        /\ input_pc' = [input_pc EXCEPT !.pc = "stop_del"]
        /\ out' = << >>
        /\ dialog' = None
        /\ UNCHANGED <<held_keys, released, threadFrame>>
        /\ UNCHANGED <<reportVars, otherVars>>

\* stop_hold_input line 194: del self.held_keys[key_id]; the call returns
T_StopDel ==
    LET key_id == <<input_pc.dev, input_pc.dir>>
    IN  /\ input_pc.pc = "stop_del"
        /\ held_keys' = MapRemove(held_keys, key_id)
        /\ released' = released \cup {key_id}
        /\ input_pc' = InputIdle
        /\ out' = << >>
        /\ dialog' = None
        /\ UNCHANGED <<timers, threadFrame>>
        /\ UNCHANGED <<reportVars, otherVars>>

\* Timer.run: the interval has passed and the Timer was not cancelled
T_TimerFire ==
    \E t \in timers :
        /\ t.pc = "waiting"
        /\ timers' = StepTimer(t, "check")
        /\ out' = << >>
        /\ dialog' = None
        /\ UNCHANGED <<held_keys, released, input_pc, threadFrame>>
        /\ UNCHANGED <<reportVars, otherVars>>

\* repeat_input line 176
T_RepeatCheck ==
    \E t \in timers :
        /\ t.pc = "check"
        /\ timers' = IF t.key \in DOMAIN held_keys /\ running
                      THEN StepTimer(t, "send")
                      ELSE timers \ {t}
        /\ out' = << >>
        /\ dialog' = None
        /\ UNCHANGED <<held_keys, released, input_pc, threadFrame>>
        /\ UNCHANGED <<reportVars, otherVars>>

\* repeat_input line 177
T_RepeatSend ==
    \E t \in timers :
        /\ t.pc = "send"
        /\ out' = send_player_input(t.key[1], t.player, t.key[2])
        /\ timers' = StepTimer(t, "resched")
        /\ dialog' = None
        /\ UNCHANGED <<held_keys, released, input_pc, threadFrame>>
        /\ UNCHANGED <<reportVars, otherVars>>

\* repeat_input lines 179-180: the next Timer is created and registered
T_RepeatResched ==
    \E t \in timers :
        /\ t.pc = "resched"
        /\ held_keys' = MapPut(held_keys, t.key, t.n)
        /\ timers' = StepTimer(t, "start")
        /\ out' = << >>
        /\ dialog' = None
        /\ UNCHANGED <<released, input_pc, threadFrame>>
        /\ UNCHANGED <<reportVars, otherVars>>

\* repeat_input line 181: timer.start()
T_RepeatStart ==
    \E t \in timers :
        /\ t.pc = "start"
        /\ timers' = StepTimer(t, "waiting")
        /\ out' = << >>
        /\ dialog' = None
        /\ UNCHANGED <<held_keys, released, input_pc, threadFrame>>
        /\ UNCHANGED <<reportVars, otherVars>>

\* run(), lines 371-372, on the main thread
T_CommandCalibrate ==
    /\ running
    /\ start_calibration
    /\ out' = << >>
    /\ UNCHANGED <<holdVars, running, lastOp, calStarted, pressOrder, released, input_pc>>
    /\ UNCHANGED <<reportVars, otherVars>>

\* run(), lines 375-377 and 387-388, then cleanup line 288: the operator
\* command 'q' (or the end of the command stream) leaves the command loop and
\* cleanup clears the running flag
T_CommandQuit ==
    /\ main_pc = "command"
    /\ running' = FALSE
    /\ main_pc' = "cancel_timers"
    /\ out' = << >>
    /\ dialog' = None
    /\ UNCHANGED <<binderVars, holdVars, lastOp, calStarted, pressOrder, released, input_pc>>
    /\ UNCHANGED <<reportVars, startupVars, last_hat>>

\* cleanup lines 291-292: cancel() on every Timer that held_keys refers to
T_CleanupCancel ==
    /\ main_pc = "cancel_timers"
    /\ timers' = {t \in timers : ~(/\ t.key \in DOMAIN held_keys
                                    /\ held_keys[t.key] = t.n
                                    /\ t.pc \in {"new", "waiting", "start"})}
    /\ main_pc' = "clear"
    /\ out' = << >>
    /\ dialog' = None
    /\ UNCHANGED <<held_keys, released, input_pc, threadFrame>>
    /\ UNCHANGED <<reportVars, startupVars, last_hat>>

\* cleanup lines 293-300: held_keys.clear(), pygame and the GUI are shut
\* down, cleanup returns
T_CleanupClear ==
    /\ main_pc = "clear"
    /\ held_keys' = EmptyMap
    /\ main_pc' = "returned"
    /\ out' = << >>
    /\ dialog' = None
    /\ UNCHANGED <<timers, released, input_pc, threadFrame>>
    /\ UNCHANGED <<reportVars, startupVars, last_hat>>

NextThreads ==
    \/ T_JoyButton
    \/ T_HoldSend
    \/ T_HoldArm
    \/ T_HoldStart
    \/ T_StopCancel
    \/ T_StopDel
    \/ T_TimerFire
    \/ T_RepeatCheck
    \/ T_RepeatSend
    \/ T_RepeatResched
    \/ T_RepeatStart
    \/ T_CommandCalibrate
    \/ T_CommandQuit
    \/ T_CleanupCancel
    \/ T_CleanupClear

SpecThreads == Init /\ [][NextThreads]_vars

-----------------------------------------------------------------------------
(* SpecBinderThreads: ddr_mac_handler.py with start_calibration on the     *)
(* main thread (the operator command 'c') and handle_calibration_input on  *)
(* the input thread interleaved statement by statement.  Events outside    *)
(* calibration and the Timer callbacks run to completion as in Spec.       *)

binderFrame == <<running, calStarted, pressOrder, released, last_hat, startupVars>>

\* input_loop takes one event; process_input runs up to the call of
\* handle_calibration_input (line 131), or to its end on the other branches
B_InputEvent(device_id, event) ==
    LET direction == get_direction_from_input(event)
        is_pressed == is_pressed_of(event)
        route == Route(device_id, direction, is_pressed)
    IN  /\ running
        /\ input_pc.pc = "idle"
        /\ route = "start_hold" => CanHold(<<device_id, direction>>)
        /\ IF route = "calibration"
           THEN /\ input_pc' = InputAt("cal_step", device_id, direction, 0, 0)
                /\ lastOp' = Op("event", device_id, direction, route)
                /\ out' = << >>
                /\ dialog' = None
                /\ UNCHANGED <<binderVars, holdVars>>
           ELSE /\ process_input(device_id, direction, is_pressed)
                /\ UNCHANGED input_pc
        /\ UNCHANGED <<main_pc, binderFrame, reportVars>>

B_JoyButton ==
    \E device_id \in Devices, type \in {"JOYBUTTONDOWN", "JOYBUTTONUP"}, button \in 0 .. MaxThreadButton :
        B_InputEvent(device_id, PygameEvent(type, button, <<0, 0>>, None))

\* a statement of the input thread that touches the binder only
B_InputStep(pc_from, pc_to, shown) ==
    /\ input_pc.pc = pc_from
    /\ input_pc' = IF pc_to = "idle" THEN InputIdle ELSE [input_pc EXCEPT !.pc = pc_to]
    /\ dialog' = shown
    /\ out' = << >>
    /\ UNCHANGED <<holdVars, lastOp, main_pc, binderFrame, reportVars>>

\* handle_calibration_input lines 212 and 225: the tests of calibration_step
B_CalStep ==
    /\ B_InputStep("cal_step",
                   IF calibration_step = 1 THEN "step1_assign"
                   ELSE IF calibration_step = 2 THEN "step2_compare" ELSE "idle",
                   None)
    /\ UNCHANGED binderVars

\* line 214: self.device_assignments[device_id] = 1
B_Step1Assign ==
    /\ B_InputStep("step1_assign", "step1_append", None)
    /\ device_assignments' = MapPut(device_assignments, input_pc.dev, 1)
    /\ UNCHANGED <<calibration_mode, calibration_step, calibrated_devices>>

\* line 215: self.calibrated_devices.append(device_id)
B_Step1Append ==
    /\ B_InputStep("step1_append", "step1_advance", None)
    /\ calibrated_devices' = Append(calibrated_devices, input_pc.dev)
    /\ UNCHANGED <<calibration_mode, calibration_step, device_assignments>>

\* lines 216-223: self.calibration_step = 2 and the dialog
B_Step1Advance ==
    /\ B_InputStep("step1_advance", "idle", "Step 1 Complete")
    /\ calibration_step' = 2
    /\ UNCHANGED <<calibration_mode, calibrated_devices, device_assignments>>

\* line 227: device_id != self.calibrated_devices[0]; the index raises
\* IndexError on an empty list; lines 241-244 on the same device
B_Step2Compare ==
    /\ IF calibrated_devices = << >>
       THEN B_InputStep("step2_compare", "index_error", None)
       ELSE IF is_other_device(input_pc.dev)
       THEN B_InputStep("step2_compare", "step2_assign", None)
       ELSE B_InputStep("step2_compare", "idle", "Same Device")
    /\ UNCHANGED binderVars

\* line 229: self.device_assignments[device_id] = 2
B_Step2Assign ==
    /\ B_InputStep("step2_assign", "step2_append", None)
    /\ device_assignments' = MapPut(device_assignments, input_pc.dev, 2)
    /\ UNCHANGED <<calibration_mode, calibration_step, calibrated_devices>>

\* line 230: self.calibrated_devices.append(device_id)
B_Step2Append ==
    /\ B_InputStep("step2_append", "step2_end", None)
    /\ calibrated_devices' = Append(calibrated_devices, input_pc.dev)
    /\ UNCHANGED <<calibration_mode, calibration_step, device_assignments>>

\* lines 232-239: the dialog and end_calibration
B_Step2End ==
    /\ B_InputStep("step2_end", "idle", "Calibration Complete!")
    /\ end_calibration
    /\ UNCHANGED <<calibration_step, calibrated_devices, device_assignments>>

\* input_loop lines 282-284: the exception is printed and the loop goes on
B_ErrorCaught ==
    /\ B_InputStep("index_error", "idle", None)
    /\ UNCHANGED binderVars

\* a statement of start_calibration on the main thread
B_MainStep(pc_from, pc_to, shown) ==
    /\ running
    /\ main_pc = pc_from
    /\ main_pc' = pc_to
    /\ dialog' = shown
    /\ out' = << >>
    /\ lastOp' = Op("start_calibration", -1, None, None)
    /\ UNCHANGED <<holdVars, input_pc, running, released, last_hat, startupVars, reportVars>>

\* run() lines 371-372 and start_calibration line 198
B_StartMode ==
    /\ B_MainStep("command", "start_step", None)
    /\ calibration_mode' = TRUE
    /\ calStarted' = TRUE
    /\ pressOrder' = << >>
    /\ UNCHANGED <<calibration_step, calibrated_devices, device_assignments>>

\* start_calibration line 199
B_StartStep ==
    /\ B_MainStep("start_step", "start_devices", None)
    /\ calibration_step' = 1
    /\ UNCHANGED <<calibration_mode, calibrated_devices, device_assignments, calStarted, pressOrder>>

\* start_calibration line 200
B_StartDevices ==
    /\ B_MainStep("start_devices", "start_assignments", None)
    /\ calibrated_devices' = << >>
    /\ UNCHANGED <<calibration_mode, calibration_step, device_assignments, calStarted, pressOrder>>

\* start_calibration lines 201-208: the bindings are cleared, the dialog is shown
B_StartAssignments ==
    /\ B_MainStep("start_assignments", "command", "Calibration Started")
    /\ device_assignments' = EmptyMap
    /\ UNCHANGED <<calibration_mode, calibration_step, calibrated_devices, calStarted, pressOrder>>

NextBinderThreads ==
    \/ B_JoyButton
    \/ B_CalStep
    \/ B_Step1Assign
    \/ B_Step1Append
    \/ B_Step1Advance
    \/ B_Step2Compare
    \/ B_Step2Assign
    \/ B_Step2Append
    \/ B_Step2End
    \/ B_ErrorCaught
    \/ B_StartMode
    \/ B_StartStep
    \/ B_StartDevices
    \/ B_StartAssignments
    \/ TimerFire

SpecBinderThreads == Init /\ [][NextBinderThreads]_vars

-----------------------------------------------------------------------------
(* SpecQuit: ddr_mac_handler.py with the command loop of run() on the main *)
(* thread.  main_pc = "command" is the main thread inside input() (line    *)
(* 369), "loop_test" is the test of line 367.  The input thread may take   *)
(* a QUIT event; the handlers run to completion as in Spec.                *)

\* input_loop lines 258-260: a QUIT event clears the running flag
Q_QuitEvent ==
    /\ running
    /\ running' = FALSE
    /\ out' = << >>
    /\ dialog' = None
    /\ lastOp' = Op("quit", -1, None, None)
    /\ UNCHANGED <<binderVars, holdVars, calStarted, pressOrder, released, input_pc>>
    /\ UNCHANGED <<reportVars, otherVars>>

\* run() lines 369-379: input() returns a line; 'c' runs start_calibration,
\* 'h' and anything else only print; the loop goes back to its test
Q_CommandLine ==
    \E command \in {"c", "h", "other"} :
        /\ main_pc = "command"
        /\ main_pc' = "loop_test"
        /\ out' = << >>
        /\ IF command = "c"
           THEN /\ start_calibration
                /\ lastOp' = Op("start_calibration", -1, None, None)
                /\ calStarted' = TRUE
                /\ pressOrder' = << >>
           ELSE /\ dialog' = None
                /\ lastOp' = Op("command", -1, None, None)
                /\ UNCHANGED <<binderVars, calStarted, pressOrder>>
        /\ UNCHANGED <<holdVars, running, released, input_pc>>
        /\ UNCHANGED <<reportVars, startupVars, last_hat>>

\* run() line 367 and lines 387-388: while self.running; when it fails the
\* finally calls cleanup
Q_LoopTest ==
    /\ main_pc = "loop_test"
    /\ main_pc' = IF running THEN "command" ELSE "cancel_timers"
    /\ out' = << >>
    /\ dialog' = None
    /\ UNCHANGED <<binderVars, holdVars, running, lastOp, calStarted, pressOrder, released, input_pc>>
    /\ UNCHANGED <<reportVars, startupVars, last_hat>>

NextQuit ==
    \/ JoyButton
    \/ JoyHat
    \/ TimerFire
    \/ Q_QuitEvent
    \/ Q_CommandLine
    \/ Q_LoopTest
    \/ T_CommandQuit
    \/ T_CleanupCancel
    \/ T_CleanupClear

SpecQuit == Init /\ [][NextQuit]_vars

\* the main thread is scheduled: it takes the steps that need no operator
\* input.  What the operator types and what the pads send is not forced.
SpecQuitFair ==
    /\ SpecQuit
    /\ WF_vars(Q_LoopTest)
    /\ WF_vars(T_CleanupCancel)
    /\ WF_vars(T_CleanupClear)

-----------------------------------------------------------------------------
(* src/main.py: _hid_device_loop, one reader thread with its locals *)

RECURSIVE SortSet(_)
\* sorted(...) of a set of integers
SortSet(S) ==
    IF S = {} THEN << >>
    ELSE LET m == CHOOSE x \in S : \A y \in S : x <= y
         IN  <<m>> \o SortSet(S \ {m})

Zeros(n) == [i \in 1 .. n |-> 0]

\* _hid_keycode_to_dir: mapping.get(code)
hid_mapping == (4 :> "left") @@ (22 :> "down") @@ (26 :> "up") @@ (7 :> "right") @@ (27 :> "down")

hid_keycode_to_dir(code) ==
    IF code \in DOMAIN hid_mapping THEN hid_mapping[code] ELSE None

pad_usages ==
    (1 :> [up |-> 8, down |-> 22, left |-> 7, right |-> 9]) @@
    (2 :> [up |-> 12, down |-> 14, left |-> 13, right |-> 15])

usage_to_keycode ==
    (4 :> 0) @@ (5 :> 11) @@ (6 :> 8) @@ (7 :> 2) @@ (8 :> 14) @@ (9 :> 3) @@
    (12 :> 34) @@ (13 :> 38) @@ (14 :> 40) @@ (15 :> 37) @@ (22 :> 1)

\* pad_usages.get(pad_index, {}).get(d); 0 stands for a missing entry
usage_of(pad, d) ==
    IF pad \in DOMAIN pad_usages /\ d \in DOMAIN pad_usages[pad] THEN pad_usages[pad][d] ELSE 0

\* the slice data[2:7], one byte short
report_keys_short_slice(data) ==
    IF Len(data) >= 8
    THEN {data[i] : i \in 3 .. 7} \ {0}
    ELSE {}

\* lines 263-267: the non-zero bytes of data[2:8] of a report of 8 bytes or more
report_keys(data) ==
    IF Len(data) >= 8
    THEN {data[i] : i \in 3 .. 8} \ {0}
    ELSE {}

\* prev_keys left as it was
next_prev_keys_stale(keys) ==
    prev_keys

\* line 281: prev_keys = keys
next_prev_keys(keys) ==
    keys

\* number of key codes of S that decode to direction d
DirCount(S, d) == Cardinality({kc \in S : hid_keycode_to_dir(kc) = d})

\* VirtualHIDKeyboard.send_usages: the 8-byte report built from a usage set
send_usages(usages_set) ==
    LET sorted == SortSet(usages_set \ {0})
        keys == SubSeq(sorted, 1, IF Len(sorted) < 6 THEN Len(sorted) ELSE 6)
    IN  <<0, 0>> \o [i \in 1 .. Len(keys) |-> keys[i] % 256] \o Zeros(6 - Len(keys))

\* emit, lines 231-235: the usages of the held directions
usages_of_held(pad, held) ==
    {usage_of(pad, d) : d \in held} \ {0}

\* every posted event a key-down event
quartz_events_always_down(pad, d, is_down, n) ==
    LET u == usage_of(pad, d)
    IN  IF n > 0 /\ u \in DOMAIN usage_to_keycode
        THEN {[keycode |-> usage_to_keycode[u], down |-> TRUE, n |-> n]}
        ELSE {}

\* emit, lines 240-247: the Quartz events of n calls emit(d, is_down)
quartz_events(pad, d, is_down, n) ==
    LET u == usage_of(pad, d)
    IN  IF n > 0 /\ u \in DOMAIN usage_to_keycode
        THEN {[keycode |-> usage_to_keycode[u], down |-> is_down, n |-> n]}
        ELSE {}

\* one iteration of the while loop, lines 249-283, that has read data
hid_device_loop_read(data) ==
    IF data # << >>
    THEN LET keys == report_keys(data)
             downs == keys \ prev_keys
             ups == prev_keys \ keys
             ev == [down |-> [d \in Directions |-> DirCount(downs, d)],
                    up |-> [d \in Directions |-> DirCount(ups, d)]]
             down_dirs == {d \in Directions : ev.down[d] > 0}
             up_dirs == {d \in Directions : ev.up[d] > 0}
             held == (held_dirs \cup down_dirs) \ up_dirs
             calls == Cardinality({kc \in downs \cup ups : hid_keycode_to_dir(kc) # None})
         IN  /\ events' = ev
             /\ held_dirs' = held
             /\ prev_keys' = next_prev_keys(keys)
             /\ IF emitter = "vk" /\ calls > 0
                THEN /\ vk_sends' = calls
                     /\ vk_last' = send_usages(usages_of_held(pad_index, held))
                ELSE /\ vk_sends' = 0
                     /\ UNCHANGED vk_last
             /\ cg_posted' = IF emitter = "quartz"
                             THEN UNION {quartz_events(pad_index, d, TRUE, ev.down[d])
                                           \cup quartz_events(pad_index, d, FALSE, ev.up[d])
                                         : d \in Directions}
                             ELSE {}
    ELSE /\ events' = NoEvents
         /\ vk_sends' = 0
         /\ cg_posted' = {}
         /\ UNCHANGED <<held_dirs, prev_keys, vk_last>>

-----------------------------------------------------------------------------
(* src/ddr_gamepad_reader.py: DDRPadReader._process_input *)

\* main(), lines 181-189: the PadMapping of each pad
pad_mapping ==
    (1 :> [up_key |-> "w", left_key |-> "a", down_key |-> "s", right_key |-> "d"]) @@
    (2 :> [up_key |-> "i", left_key |-> "j", down_key |-> "k", right_key |-> "l"])

\* button_map of _process_input, in dict order
reader_button_map ==
    << [bit_mask |-> 1, key_attr |-> "up_key"],
       [bit_mask |-> 2, key_attr |-> "down_key"],
       [bit_mask |-> 4, key_attr |-> "left_key"],
       [bit_mask |-> 8, key_attr |-> "right_key"] >>

\* bool(buttons & bit_mask) for a one-bit mask
bit_set(buttons, bit_mask) == (buttons \div bit_mask) % 2 = 1

RECURSIVE process_buttons(_, _, _, _)
\* the for loop of lines 113-126 from entry i on: the button states and the
\* keyboard calls it ends with
process_buttons(i, buttons, states, sent) ==
    IF i > Len(reader_button_map) THEN [states |-> states, sent |-> sent]
    ELSE LET key_attr == reader_button_map[i].key_attr
             key_name == pad_mapping[pad_index][key_attr]
             is_pressed == bit_set(buttons, reader_button_map[i].bit_mask)
         IN  IF key_attr \notin DOMAIN states \/ states[key_attr] # is_pressed
             THEN process_buttons(i + 1, buttons, MapPut(states, key_attr, is_pressed),
                      Append(sent, [op |-> IF is_pressed THEN "press" ELSE "release",
                                    key |-> key_name]))
             ELSE process_buttons(i + 1, buttons, states, sent)

\* _read_loop lines 84-86 with _process_input
reader_read(data) ==
    IF data # << >> /\ Len(data) >= 4
    THEN LET r == process_buttons(1, data[1], button_states, << >>)
         IN  /\ button_states' = r.states
             /\ kbd' = r.sent
    ELSE /\ kbd' = << >>
         /\ UNCHANGED button_states

-----------------------------------------------------------------------------
(* SpecReports: one reader fed reports, either the _hid_device_loop of     *)
(* src/main.py or the DDRPadReader of src/ddr_gamepad_reader.py            *)

\* key codes that occur in the reports: the five mapped ones and an unmapped one
InputCodes == {4, 7, 22, 26, 27, 5}

\* an 8-byte keyboard report [mods, reserved, k1..k6] holding the codes K,
\* in the first or in the last key slots
ReportOf(K, at_end) ==
    LET keys == SortSet(K)
    IN  IF at_end THEN <<0, 0>> \o Zeros(6 - Len(keys)) \o keys
                  ELSE <<0, 0>> \o keys \o Zeros(6 - Len(keys))

FullReports ==
    {ReportOf(K, at_end) : K \in {S \in SUBSET InputCodes : Cardinality(S) <= MaxKeys},
                           at_end \in BOOLEAN}

\* reports cut short to 3 or 7 bytes, holding at most one key code
ShortReports ==
    {SubSeq(ReportOf(K, at_end), 1, n) :
        K \in {S \in SUBSET InputCodes : Cardinality(S) <= 1}, at_end \in BOOLEAN, n \in {3, 7}}

\* what a read returns: a report, a short report, or nothing

HidData == FullReports \cup ShortReports \cup {<< >>}

ReaderData ==
    {<<b, 0, 0, 0>> : b \in 0 .. MaxButtonByte} \cup {<<b, 0, 0>> : b \in {0, 1}} \cup {<< >>}

NoteRead(data) ==
    /\ had_data' = (data # << >>)
    /\ repeated' = (data # << >> /\ data = last_report)
    /\ last_report' = IF data # << >> THEN data ELSE last_report

\* dev.read(64, 50) in _hid_device_loop returned data
HidRead ==
    \E data \in HidData :
        /\ program = "main"
        /\ hid_device_loop_read(data)
        /\ NoteRead(data)
        /\ UNCHANGED <<program, pad_index, emitter, button_states, kbd>>
        /\ UNCHANGED <<macVars, otherVars>>

\* self.device.read(64) in _read_loop returned data
ReaderRead ==
    \E data \in ReaderData :
        /\ program = "ddr_gamepad_reader"
        /\ reader_read(data)
        /\ NoteRead(data)
        /\ UNCHANGED <<program, pad_index, emitter, prev_keys, held_dirs, vk_last,
                       events, vk_sends, cg_posted>>
        /\ UNCHANGED <<macVars, otherVars>>

InitReports ==
    /\ InitMac
    /\ InitOtherIdle
    /\ InitReaderState
    /\ pad_index \in {1, 2}
    /\ \/ program = "main" /\ emitter \in {"vk", "quartz", "log"}
       \/ program = "ddr_gamepad_reader" /\ emitter = None

NextReports == HidRead \/ ReaderRead

SpecReports == InitReports /\ [][NextReports]_vars

-----------------------------------------------------------------------------
(* SpecPrograms: the three scripts side by side.  The script that was      *)
(* started takes its steps: ddr_mac_handler.py those of Spec, src/main.py  *)
(* and src/ddr_gamepad_reader.py those of SpecReports.                     *)

InitPrograms == Init \/ InitReports

MacStep == program = "ddr_mac_handler" /\ Next

NextPrograms == MacStep \/ NextReports

SpecPrograms == InitPrograms /\ [][NextPrograms]_vars

-----------------------------------------------------------------------------
(* src/main.py: start_hid_logging.  A serial number is the sequence of the *)
(* code points of its characters; << >> is an absent or empty serial.      *)

\* 'unknown'
unknown == <<117, 110, 107, 110, 111, 119, 110>>

\* Python's a < b on strings
LexLess(a, b) ==
    \E k \in 0 .. Len(a) :
        /\ k <= Len(b)
        /\ \A i \in 1 .. k : a[i] = b[i]
        /\ \/ (k = Len(a) /\ k < Len(b))
           \/ (k < Len(a) /\ k < Len(b) /\ a[k + 1] < b[k + 1])

\* line 307: info.get('serial_number') or 'unknown'
serial_key(info) ==
    IF info.serial_number = << >> THEN unknown ELSE info.serial_number

RECURSIVE group_keys(_)
\* lines 305-308: the keys of groups, in the order of their first descriptor
group_keys(devs) ==
    IF devs = << >> THEN << >>
    ELSE LET front == group_keys(SubSeq(devs, 1, Len(devs) - 1))
             sn == serial_key(devs[Len(devs)])
         IN  IF \E i \in 1 .. Len(front) : front[i] = sn THEN front ELSE Append(front, sn)

\* x put into the ascending sequence sorted_keys
InsertSorted(sorted_keys, x) ==
    LET before == SelectSeq(sorted_keys, LAMBDA y : LexLess(y, x))
        after == SelectSeq(sorted_keys, LAMBDA y : ~LexLess(y, x))
    IN  before \o <<x>> \o after

RECURSIVE SortedSeq(_)
SortedSeq(keys) ==
    IF keys = << >> THEN << >>
    ELSE InsertSorted(SortedSeq(SubSeq(keys, 1, Len(keys) - 1)), keys[Len(keys)])

\* the serials left in the order of enumeration
sorted_serials_unsorted(keys) ==
    keys

\* line 311: sorted(groups.keys())
sorted_serials(keys) ==
    SortedSeq(keys)

\* line 319: the keyboard interfaces (usage 6) of groups[sn]
keyboard_infos(devs, sn) ==
    SelectSeq(devs, LAMBDA i : serial_key(i) = sn /\ i.usage = 6)

\* the first keyboard interface in the order of enumeration
lowest_interface_first_listed(infos) ==
    infos[1]

\* line 324: sorted(keyboard_infos, key=interface_number)[0]; the sort is
\* stable, so the first of the descriptors with the lowest interface_number
lowest_interface(infos) ==
    LET k == CHOOSE j \in 1 .. Len(infos) :
                 /\ \A m \in 1 .. Len(infos) :
                        infos[j].interface_number <= infos[m].interface_number
                 /\ \A m \in 1 .. (j - 1) :
                        infos[m].interface_number > infos[j].interface_number
    IN  infos[k]

\* the pad index taken from the number of pads opened so far
pad_index_of_opened(position, opened) ==
    Len(opened) + 1

\* line 317: enumerate(serials, start=1)
pad_index_of(position, opened) ==
    position

\* lines 317-336 for the serial at one position: what it adds to hid_devices
\* and what it prints about a skipped pad
open_pad(devs, position, sn, opened) ==
    LET pad == pad_index_of(position, opened)
        infos == keyboard_infos(devs, sn)
    IN  IF infos = << >>
        THEN [opened |-> << >>,
              skipped |-> << [pad_index |-> pad, sn |-> sn, why |-> "no_keyboard_interface"] >>]
        ELSE LET info == lowest_interface(infos)
             IN  IF ~info.opens
                 THEN [opened |-> << >>,
                       skipped |-> << [pad_index |-> pad, sn |-> sn, why |-> "open_failed"] >>]
                 ELSE [opened |-> << [pad_index |-> pad, sn |-> sn,
                                      interface_number |-> info.interface_number,
                                      usage |-> info.usage, task |-> "running"] >>,
                       skipped |-> << >>]

\* start_hid_logging, lines 290-347: the result, the serials taken, the
\* devices opened (their reader threads started) and the pads skipped
start_hid_logging(devs) ==
    LET all == sorted_serials(group_keys(devs))
    IN  IF devs = << >> \/ Len(all) < 2
        THEN [result |-> FALSE, serials |-> << >>, hid_devices |-> << >>, skipped |-> << >>]
        ELSE LET two == SubSeq(all, 1, 2)
                 r1 == open_pad(devs, 1, two[1], << >>)
                 r2 == open_pad(devs, 2, two[2], r1.opened)
             IN  [result |-> TRUE, serials |-> two,
                  hid_devices |-> r1.opened \o r2.opened,
                  skipped |-> r1.skipped \o r2.skipped]

-----------------------------------------------------------------------------
(* SpecSession: run() of src/main.py.  The main thread calls               *)
(* start_hid_logging, starts the command thread, stays in idle_loop and    *)
(* ends in cleanup; the command thread reads the operator's lines; every   *)
(* reader thread polls until the running flag is false and then closes     *)
(* its device.                                                             *)

\* serial numbers of the descriptors: absent, "AB", "B", "v"
SerialPool == {<< >>, <<65, 66>>, <<66>>, <<118>>}

Interfaces == {0, 1}

\* the descriptors hid.enumerate may return: keyboard interfaces (usage 6)
\* that can or cannot be opened, and gamepad interfaces (usage 5)
InfoPool ==
    [serial_number : SerialPool, usage : {6}, interface_number : Interfaces, opens : BOOLEAN]
    \cup [serial_number : SerialPool, usage : {5}, interface_number : {0}, opens : {TRUE}]

Enumerations == UNION {[1 .. n -> InfoPool] : n \in 0 .. MaxInfos}

sessionFrame == <<binderVars, holdVars, out, dialog, lastOp, calStarted, pressOrder,
                  released, input_pc, last_hat, reportVars, readersVars>>

\* run(), line 436; the list returned by hid.enumerate is dropped at the return
StartHidLogging ==
    LET r == start_hid_logging(devices)
    IN  /\ main_pc = "start"
        /\ started_hid' = r.result
        /\ serials' = r.serials
        /\ hid_devices' = r.hid_devices
        /\ hid_log' = r.skipped
        /\ devices' = << >>
        /\ main_pc' = "spawn"
        /\ UNCHANGED <<running, command_pc, eof_seen, sessionFrame>>

\* run(), lines 447-453: the command thread is started, the main thread
\* enters idle_loop
StartCommandThread ==
    /\ main_pc = "spawn"
    /\ command_pc' = "polling"
    /\ main_pc' = "idle"
    /\ UNCHANGED <<running, devices, serials, hid_devices, hid_log, started_hid, eof_seen,
                   sessionFrame>>

\* command_loop, lines 366-380: a line was read from stdin
CommandLine ==
    \E command \in {"h", "q", "other"} :
        /\ command_pc = "polling"
        /\ ~eof_seen
        /\ IF ~running
           THEN command_pc' = "exited" /\ UNCHANGED running
           ELSE IF command = "q"
           THEN command_pc' = "exited" /\ running' = FALSE
           ELSE UNCHANGED <<command_pc, running>>
        /\ UNCHANGED <<main_pc, devices, serials, hid_devices, hid_log, started_hid, eof_seen,
                       sessionFrame>>

\* command_loop, lines 367-369: readline returned '' (end of the stream)
CommandEOF ==
    /\ command_pc = "polling"
    /\ ~eof_seen
    /\ eof_seen' = TRUE
    /\ command_pc' = "exited"
    /\ UNCHANGED <<running, main_pc, devices, serials, hid_devices, hid_log, started_hid,
                   sessionFrame>>

\* command_loop, line 359: the loop test finds running false
CommandLoopExit ==
    /\ command_pc = "polling"
    /\ ~running
    /\ command_pc' = "exited"
    /\ UNCHANGED <<running, main_pc, devices, serials, hid_devices, hid_log, started_hid,
                   eof_seen, sessionFrame>>

\* idle_loop, line 351: the loop test finds running false
IdleLoopExit ==
    /\ main_pc = "idle"
    /\ ~running
    /\ main_pc' = "cleanup"
    /\ UNCHANGED <<running, command_pc, devices, serials, hid_devices, hid_log, started_hid,
                   eof_seen, sessionFrame>>

\* an interrupt signal reaches the main thread in idle_loop: KeyboardInterrupt
\* leaves the loop through the finally of line 454
Interrupt ==
    /\ main_pc = "idle"
    /\ main_pc' = "cleanup"
    /\ UNCHANGED <<running, command_pc, devices, serials, hid_devices, hid_log, started_hid,
                   eof_seen, sessionFrame>>

\* cleanup, lines 388-399; the join of the command thread gives up after 1 s
Cleanup ==
    /\ main_pc = "cleanup"
    /\ running' = FALSE
    /\ main_pc' = "done"
    /\ UNCHANGED <<command_pc, devices, serials, hid_devices, hid_log, started_hid,
                   eof_seen, sessionFrame>>

\* _hid_device_loop, lines 249 and 284-288: a reader finds running false,
\* leaves its loop and closes its device
ReaderExit ==
    \E i \in 1 .. Len(hid_devices) :
        /\ ~running
        /\ hid_devices[i].task = "running"
        /\ hid_devices' = [hid_devices EXCEPT ![i].task = "closed"]
        /\ UNCHANGED <<running, main_pc, command_pc, devices, serials, hid_log, started_hid,
                       eof_seen, sessionFrame>>

\* run() has returned and main() ends: the interpreter waits for the command
\* thread (daemon=False, line 447) and exits; the reader threads are daemon
\* threads (line 340) that nothing joins, so those still running are stopped
\* where they are, without reaching the finally of line 284
ProcessExit ==
    /\ main_pc = "done"
    /\ command_pc = "exited"
    /\ main_pc' = "exited"
    /\ hid_devices' = [i \in 1 .. Len(hid_devices) |->
                          IF hid_devices[i].task = "running"
                          THEN [hid_devices[i] EXCEPT !.task = "killed"]
                          ELSE hid_devices[i]]
    /\ UNCHANGED <<running, command_pc, devices, serials, hid_log, started_hid,
                   eof_seen, sessionFrame>>

InitSession ==
    /\ InitMac
    /\ InitReaderState
    /\ program = "main"
    /\ pad_index = 0
    /\ emitter = None
    /\ main_pc = "start"
    /\ last_hat = NoHat
    /\ devices \in Enumerations
    /\ serials = << >>
    /\ hid_devices = << >>
    /\ hid_log = << >>
    /\ started_hid = FALSE
    /\ command_pc = "not_started"
    /\ eof_seen = FALSE
    /\ InitReadersIdle

NextSession ==
    \/ StartHidLogging
    \/ StartCommandThread
    \/ CommandLine
    \/ CommandEOF
    \/ CommandLoopExit
    \/ IdleLoopExit
    \/ Interrupt
    \/ Cleanup
    \/ ReaderExit
    \/ ProcessExit

SpecSession == InitSession /\ [][NextSession]_vars

\* the threads are scheduled: a thread that can take its next step takes it.
\* What the operator types, the end of the command stream and interrupts
\* are not forced to happen.
\* Checked from the enumeration results of two descriptors.
InitSessionTwo == InitSession /\ Len(devices) = 2

SpecSessionFair ==
    /\ InitSessionTwo
    /\ [][NextSession]_vars
    /\ WF_vars(StartHidLogging)
    /\ WF_vars(StartCommandThread)
    /\ WF_vars(CommandLoopExit)
    /\ WF_vars(IdleLoopExit)
    /\ WF_vars(Cleanup)
    /\ WF_vars(ReaderExit)
    /\ WF_vars(ProcessExit)

-----------------------------------------------------------------------------
(* SpecReaders: the two reader threads of src/main.py side by side, after  *)
(* start_hid_logging has opened both pads.  Each reader prepares its       *)
(* virtual keyboard, then polls its device until the running flag is false *)
(* and closes it.                                                          *)

Pads == {1, 2}

\* key codes in the reports of the two pads: left, down and the alternate down
PadCodes == {4, 22, 27}

\* what a read that returns hands back: nothing, a full report, a short report
PadData ==
    {<< >>, <<0, 0, 4>>}
    \cup {ReportOf(K, FALSE) : K \in {S \in SUBSET PadCodes : Cardinality(S) <= MaxKeys}}

\* what lines 250-257 meet: the timed read returns, raises TypeError (the
\* read without timeout is tried, and returns or raises), or raises
ReadOutcomes ==
    [first : {"returns"}, second : {None}, data : PadData]
    \cup [first : {"TypeError"}, second : {"returns"}, data : {<< >>, ReportOf({4}, FALSE)}]
    \cup [first : {"TypeError", "raises"}, second : {"raises"}, data : {<< >>}]

\* the read ended in the except branch of line 256
read_raised(outcome) ==
    outcome.first # "returns" /\ outcome.second # "returns"

\* a failed read handed on as a one-byte report
read_data_error_as_report(outcome) ==
    IF read_raised(outcome) THEN <<0>> ELSE outcome.data

\* lines 250-257: the data the iteration goes on with
read_data(outcome) ==
    IF read_raised(outcome) THEN << >> ELSE outcome.data

\* one virtual keyboard for both pads
vk_slot_shared(pad) ==
    1

\* lines 215 and 219: the key of self.virtual_keyboards a pad uses
vk_slot(pad) ==
    pad

\* lines 213-222 and the tests of lines 236-238: the output path of a pad and
\* the warnings printed while preparing it
prepare_vk(pad, create_ok) ==
    LET has_vk == platform.iokit /\ (vk_slot(pad) \in DOMAIN virtual_keyboards \/ create_ok)
    IN  [emitter |-> IF has_vk THEN "vk" ELSE IF platform.quartz THEN "quartz" ELSE "log",
         warnings |-> IF platform.iokit /\ ~has_vk THEN 1 ELSE 0,
         created |-> has_vk /\ vk_slot(pad) \notin DOMAIN virtual_keyboards]

\* lines 258-283 for the reader r of pad on data: its locals afterwards,
\* the DOWN / UP lines printed, the report sent, the Quartz events posted
reader_iteration(r, pad, data) ==
    IF data # << >>
    THEN LET keys == report_keys(data)
             downs == keys \ r.prev_keys
             ups == r.prev_keys \ keys
             ev == [down |-> [d \in Directions |-> DirCount(downs, d)],
                    up |-> [d \in Directions |-> DirCount(ups, d)]]
             down_dirs == {d \in Directions : ev.down[d] > 0}
             up_dirs == {d \in Directions : ev.up[d] > 0}
             held == (r.held_dirs \cup down_dirs) \ up_dirs
             calls == Cardinality({kc \in downs \cup ups : hid_keycode_to_dir(kc) # None})
         IN  [reader |-> [r EXCEPT !.prev_keys = keys, !.held_dirs = held],
              events |-> ev,
              vk_sends |-> IF r.emitter = "vk" THEN calls ELSE 0,
              report |-> send_usages(usages_of_held(pad, held)),
              cg_posted |-> IF r.emitter = "quartz"
                            THEN UNION {quartz_events(pad, d, TRUE, ev.down[d])
                                          \cup quartz_events(pad, d, FALSE, ev.up[d])
                                        : d \in Directions}
                            ELSE {}]
    ELSE [reader |-> r, events |-> NoEvents, vk_sends |-> 0, report |-> << >>, cg_posted |-> {}]

\* one iteration of the reader of pad on the shared state: the readers and the
\* virtual keyboards afterwards, and what the iteration did
reader_step(rs, vks, pad, raised, data) ==
    LET it == reader_iteration(rs[pad], pad, data)
    IN  [readers |-> [rs EXCEPT ![pad] = it.reader],
         virtual_keyboards |-> IF it.vk_sends > 0
                               THEN [vks EXCEPT ![vk_slot(pad)] = it.report]
                               ELSE vks,
         last_read |-> [pad |-> pad, raised |-> raised, events |-> it.events,
                        vk_sends |-> it.vk_sends, cg_posted |-> it.cg_posted]]

readersFrame == <<macVars, reportVars, main_pc, last_hat, devices, serials, hid_devices,
                  hid_log, started_hid, command_pc, eof_seen, quartz_down>>

\* _hid_device_loop lines 190-222: the thread of a pad starts
R_Prepare ==
    \E pad \in Pads, create_ok \in BOOLEAN :
        LET v == prepare_vk(pad, create_ok)
        IN  /\ readers[pad].task = "starting"
            /\ readers' = [readers EXCEPT ![pad].task = "polling",
                                          ![pad].emitter = v.emitter,
                                          ![pad].warnings = @ + v.warnings]
            /\ virtual_keyboards' = IF v.created
                                    THEN MapPut(virtual_keyboards, vk_slot(pad), << >>)
                                    ELSE virtual_keyboards
            /\ last_read' = NoRead
            /\ UNCHANGED <<platform, readersFrame>>

\* _hid_device_loop lines 249-283: the loop test passes, one read, its processing
R_Read ==
    \E pad \in Pads, outcome \in ReadOutcomes :
        LET r == reader_step(readers, virtual_keyboards, pad,
                             read_raised(outcome), read_data(outcome))
        IN  /\ running
            /\ readers[pad].task = "polling"
            /\ readers' = r.readers
            /\ virtual_keyboards' = r.virtual_keyboards
            /\ last_read' = r.last_read
            /\ UNCHANGED <<platform, readersFrame>>

\* command_loop line 377 or cleanup line 390: the running flag is cleared
R_Stop ==
    /\ running
    /\ running' = FALSE
    /\ last_read' = NoRead
    /\ UNCHANGED <<binderVars, holdVars, out, dialog, lastOp, calStarted, pressOrder,
                   released, input_pc>>
    /\ UNCHANGED <<reportVars, main_pc, last_hat, devices, serials, hid_devices,
                   hid_log, started_hid, command_pc, eof_seen>>
    /\ UNCHANGED <<platform, readers, virtual_keyboards, quartz_down>>

\* _hid_device_loop lines 249 and 284-288: the loop test fails, the device is closed
R_Exit ==
    \E pad \in Pads :
        /\ ~running
        /\ readers[pad].task = "polling"
        /\ readers' = [readers EXCEPT ![pad].task = "closed"]
        /\ last_read' = NoRead
        /\ UNCHANGED <<platform, virtual_keyboards, readersFrame>>

InitReaders ==
    /\ InitMac
    /\ InitReaderState
    /\ program = "main"
    /\ pad_index = 0
    /\ emitter = None
    /\ main_pc = "idle"
    /\ last_hat = NoHat
    /\ devices = << >>
    /\ serials = << >>
    /\ hid_devices = << >>
    /\ hid_log = << >>
    /\ started_hid = TRUE
    /\ command_pc = "polling"
    /\ eof_seen = FALSE
    /\ platform \in [iokit : BOOLEAN, quartz : BOOLEAN]
    /\ readers = [pad \in Pads |-> [task |-> "starting", emitter |-> None, warnings |-> 0,
                                    prev_keys |-> {}, held_dirs |-> {}]]
    /\ virtual_keyboards = EmptyMap
    /\ last_read = NoRead
    /\ quartz_down = {}

NextReaders == R_Prepare \/ R_Read \/ R_Stop \/ R_Exit

SpecReaders == InitReaders /\ [][NextReaders]_vars

-----------------------------------------------------------------------------
(* SpecEmit: the emit calls of one _hid_device_loop of src/main.py, one by  *)
(* one.  emit updates held_dirs before it branches on the output path       *)
(* (line 236), so both paths see the same held_dirs: each call is recorded  *)
(* with the report vk.send_usages would be given and with the Quartz event  *)
(* the fallback would post.  last_read holds the calls of the last read.    *)

\* key codes in the reports: left, down, the alternate down, up, an unmapped one
EmitCodes == {4, 22, 27, 26, 5}

EmitData ==
    {ReportOf(K, FALSE) : K \in {S \in SUBSET EmitCodes : Cardinality(S) <= MaxKeys}}
    \cup {<< >>, <<0, 0, 4>>}

\* the orders in which a for loop can visit a set (lines 271 and 276)
Orders(S) ==
    {f \in [1 .. Cardinality(S) -> S] : \A i, j \in DOMAIN f : i # j => f[i] # f[j]}

\* lines 271-280: the emit calls made for the key codes visited in this order
emit_calls(order, is_down) ==
    LET mapped == SelectSeq(order, LAMBDA kc : hid_keycode_to_dir(kc) # None)
    IN  [i \in 1 .. Len(mapped) |->
            [direction |-> hid_keycode_to_dir(mapped[i]), is_down |-> is_down]]

\* emit, lines 224-247, for one call: held_dirs afterwards, the report of the
\* virtual-keyboard path, the event of the Quartz path and the keycodes that
\* are down once that event is applied
emit(pad, held, down_before, call) ==
    LET held_after == IF call.is_down THEN held \cup {call.direction}
                                      ELSE held \ {call.direction}
        posted == quartz_events(pad, call.direction, call.is_down, 1)
    IN  [direction |-> call.direction,
         is_down |-> call.is_down,
         held_dirs |-> held_after,
         report |-> send_usages(usages_of_held(pad, held_after)),
         posted |-> posted,
         quartz_down |-> (down_before \cup {e.keycode : e \in {x \in posted : x.down}})
                           \ {e.keycode : e \in {x \in posted : ~x.down}}]

RECURSIVE emit_all(_, _, _, _, _)
\* the emit calls of one read, in order
emit_all(pad, held, down_before, calls, done) ==
    IF calls = << >> THEN done
    ELSE LET e == emit(pad, held, down_before, Head(calls))
         IN  emit_all(pad, e.held_dirs, e.quartz_down, Tail(calls), Append(done, e))

NoEmits == [pad |-> 0, emits |-> << >>]

\* one iteration of the while loop, lines 249-283
E_Read ==
    \E data \in EmitData :
        LET keys == report_keys(data)
        IN  \E down_order \in Orders(keys \ prev_keys), up_order \in Orders(prev_keys \ keys) :
                LET calls == IF data # << >>
                             THEN emit_calls(down_order, TRUE) \o emit_calls(up_order, FALSE)
                             ELSE << >>
                    emits == emit_all(pad_index, held_dirs, quartz_down, calls, << >>)
                IN  /\ program = "main"
                    /\ hid_device_loop_read(data)
                    /\ last_read' = [pad |-> pad_index, emits |-> emits]
                    /\ quartz_down' = IF emits = << >> THEN quartz_down
                                      ELSE emits[Len(emits)].quartz_down
                    /\ UNCHANGED <<program, pad_index, emitter, button_states, kbd,
                                   last_report, had_data, repeated>>
                    /\ UNCHANGED <<macVars, main_pc, last_hat, devices, serials, hid_devices,
                                   hid_log, started_hid, command_pc, eof_seen,
                                   platform, readers, virtual_keyboards>>

InitEmit ==
    /\ InitMac
    /\ InitReaderState
    /\ program = "main"
    /\ pad_index \in {1, 2}
    /\ emitter \in {"vk", "quartz"}
    /\ main_pc = "idle"
    /\ last_hat = NoHat
    /\ devices = << >>
    /\ serials = << >>
    /\ hid_devices = << >>
    /\ hid_log = << >>
    /\ started_hid = TRUE
    /\ command_pc = "polling"
    /\ eof_seen = FALSE
    /\ platform = [iokit |-> emitter = "vk", quartz |-> emitter = "quartz"]
    /\ readers = << >>
    /\ virtual_keyboards = EmptyMap
    /\ last_read = NoEmits
    /\ quartz_down = {}

NextEmit == E_Read

SpecEmit == InitEmit /\ [][NextEmit]_vars

-----------------------------------------------------------------------------
(* SpecGamepad: main() of src/ddr_gamepad_reader.py.  The two DDRPadReader *)
(* objects connect one after the other, then both read threads run until   *)
(* Ctrl+C.  readers maps the pad (1, 2) to the state of its DDRPadReader.  *)

\* the serials of pad1_mapping and pad2_mapping, lines 181-189
mapping_serial == (1 :> "081E472A7027") @@ (2 :> "0835C7297027")

\* the descriptors hid.enumerate may return to connect: MusicGame interfaces
\* of the two pads, gamepad (usage 5) or keyboard (usage 6), that can or
\* cannot be opened
GamepadInfos ==
    [serial_number : {mapping_serial[1], mapping_serial[2]}, usage : {5, 6}, opens : BOOLEAN]

GamepadEnumerations == UNION {[1 .. n -> GamepadInfos] : n \in 0 .. MaxInfos}

\* connect, lines 36-54: the first descriptor of the pad's gamepad interface
\* decides: True when it opens, False when it does not or when there is none
connect(pad, devs) ==
    LET found == {m \in 1 .. Len(devs) : /\ devs[m].serial_number = mapping_serial[pad]
                                          /\ devs[m].usage = 5}
    IN  /\ found # {}
        /\ devs[CHOOSE m \in found : \A k \in found : m <= k].opens

RECURSIVE process_input_of(_, _, _, _, _)
\* _process_input lines 113-126 of the reader of pad, from entry i on
process_input_of(pad, i, buttons, states, sent) ==
    IF i > Len(reader_button_map) THEN [states |-> states, sent |-> sent]
    ELSE LET key_attr == reader_button_map[i].key_attr
             key_name == pad_mapping[pad][key_attr]
             is_pressed == bit_set(buttons, reader_button_map[i].bit_mask)
         IN  IF key_attr \notin DOMAIN states \/ states[key_attr] # is_pressed
             THEN process_input_of(pad, i + 1, buttons, MapPut(states, key_attr, is_pressed),
                      Append(sent, [op |-> IF is_pressed THEN "press" ELSE "release",
                                    key |-> key_name]))
             ELSE process_input_of(pad, i + 1, buttons, states, sent)

gamepadFrame == <<macVars, program, pad_index, emitter, prev_keys, held_dirs, vk_last,
                  button_states, events, vk_sends, cg_posted, last_report, had_data, repeated,
                  last_hat, serials, hid_devices, hid_log, started_hid, command_pc, eof_seen,
                  platform, virtual_keyboards, last_read, quartz_down>>

\* main lines 196-198: pad1.connect(); main returns when it fails
G_ConnectPad1 ==
    /\ main_pc = "connect_pad1"
    /\ IF connect(1, devices)
       THEN /\ readers' = [readers EXCEPT ![1].task = "connected"]
            /\ main_pc' = "connect_pad2"
       ELSE /\ main_pc' = "returned"
            /\ UNCHANGED readers
    /\ kbd' = << >>
    /\ UNCHANGED <<devices, gamepadFrame>>

\* main lines 200-203: pad2.connect(); when it fails pad1 is disconnected and
\* main returns
G_ConnectPad2 ==
    /\ main_pc = "connect_pad2"
    /\ IF connect(2, devices)
       THEN /\ readers' = [readers EXCEPT ![2].task = "connected"]
            /\ main_pc' = "start_reading"
       ELSE /\ readers' = [readers EXCEPT ![1].task = "disconnected"]
            /\ main_pc' = "returned"
    /\ kbd' = << >>
    /\ UNCHANGED <<devices, gamepadFrame>>

\* main lines 207-216: both read threads are started, main sleeps
G_StartReading ==
    /\ main_pc = "start_reading"
    /\ readers' = [pad \in DOMAIN readers |-> [readers[pad] EXCEPT !.task = "reading"]]
    /\ main_pc' = "sleeping"
    /\ kbd' = << >>
    /\ UNCHANGED <<devices, gamepadFrame>>

\* _read_loop lines 82-87 of one pad: a read and _process_input
G_Read ==
    \E pad \in DOMAIN readers, data \in {<<b, 0, 0, 0>> : b \in 0 .. 3} \cup {<<1, 0, 0>>, << >>} :
        LET r == IF data # << >> /\ Len(data) >= 4
                 THEN process_input_of(pad, 1, data[1], readers[pad].button_states, << >>)
                 ELSE [states |-> readers[pad].button_states, sent |-> << >>]
        IN  /\ readers[pad].task = "reading"
            /\ readers' = [readers EXCEPT ![pad].button_states = r.states]
            /\ kbd' = r.sent
            /\ UNCHANGED <<main_pc, devices, gamepadFrame>>

\* _read_loop lines 89-91 of one pad: the read raises, the thread of this
\* pad ends
G_ReadError ==
    \E pad \in DOMAIN readers :
        /\ readers[pad].task = "reading"
        /\ readers' = [readers EXCEPT ![pad].task = "read_failed"]
        /\ kbd' = << >>
        /\ UNCHANGED <<main_pc, devices, gamepadFrame>>

\* main lines 218-224: Ctrl+C; both readers are stopped and disconnected
G_Interrupt ==
    /\ main_pc = "sleeping"
    /\ readers' = [pad \in DOMAIN readers |-> [readers[pad] EXCEPT !.task = "disconnected"]]
    /\ main_pc' = "stopped"
    /\ kbd' = << >>
    /\ UNCHANGED <<devices, gamepadFrame>>

InitGamepad ==
    /\ InitMac
    /\ InitReaderState
    /\ program = "ddr_gamepad_reader"
    /\ pad_index = 0
    /\ emitter = None
    /\ main_pc = "connect_pad1"
    /\ last_hat = NoHat
    /\ devices \in GamepadEnumerations
    /\ serials = << >>
    /\ hid_devices = << >>
    /\ hid_log = << >>
    /\ started_hid = FALSE
    /\ command_pc = "not_started"
    /\ eof_seen = FALSE
    /\ platform = [iokit |-> FALSE, quartz |-> FALSE]
    /\ readers = [pad \in {1, 2} |-> [task |-> "created", button_states |-> EmptyMap]]
    /\ virtual_keyboards = EmptyMap
    /\ last_read = NoRead
    /\ quartz_down = {}

NextGamepad ==
    G_ConnectPad1 \/ G_ConnectPad2 \/ G_StartReading \/ G_Read \/ G_ReadError \/ G_Interrupt

SpecGamepad == InitGamepad /\ [][NextGamepad]_vars

-----------------------------------------------------------------------------
(* SpecPadReader: one DDRPadReader object of src/ddr_gamepad_reader.py and  *)
(* its read thread; the methods are called in any order.  readers maps the  *)
(* pad to the fields of its DDRPadReader:                                   *)
(*   device: "None", "unopened" (a hid.device() whose open_path raised) or  *)
(*           "open"; an hid.device object is true in `if not self.device`   *)
(*   running, thread ("None", "alive", "ended"), button_states              *)
(*   last_call: the method that ran last, with the value connect returned   *)

\* connect, lines 38-41: a descriptor of the pad's gamepad interface is listed
connect_found(pad, devs) ==
    \E m \in 1 .. Len(devs) : /\ devs[m].serial_number = mapping_serial[pad]
                              /\ devs[m].usage = 5

\* connect, lines 44-51: self.device after the call; hid.device() is assigned
\* before open_path is tried and is not reset when open_path raises
device_after_connect(old, pad, devs) ==
    IF ~connect_found(pad, devs) THEN old
    ELSE IF connect(pad, devs) THEN "open" ELSE "unopened"

\* __init__, lines 25-32
NewPadReader ==
    [device |-> "None", running |-> FALSE, thread |-> "None",
     button_states |-> EmptyMap, last_call |-> "init"]

padReaderFrame == <<gamepadFrame, main_pc, devices>>

\* connect, lines 34-54
P_Connect ==
    \E pad \in DOMAIN readers :
        /\ readers' = [readers EXCEPT
               ![pad].device = device_after_connect(readers[pad].device, pad, devices),
               ![pad].last_call = IF connect(pad, devices) THEN "connect_true"
                                                           ELSE "connect_false"]
        /\ kbd' = << >>
        /\ UNCHANGED padReaderFrame

\* disconnect, lines 56-60
P_Disconnect ==
    \E pad \in DOMAIN readers :
        /\ readers' = [readers EXCEPT ![pad].device = "None",
                                      ![pad].last_call = "disconnect"]
        /\ kbd' = << >>
        /\ UNCHANGED padReaderFrame

\* start_reading, lines 62-70; called while no read thread of the object is alive
P_StartReading ==
    \E pad \in DOMAIN readers :
        /\ readers[pad].thread # "alive"
        /\ readers' = IF readers[pad].device = "None"
                      THEN [readers EXCEPT ![pad].last_call = "start_reading"]
                      ELSE [readers EXCEPT ![pad].running = TRUE,
                                           ![pad].thread = "alive",
                                           ![pad].last_call = "start_reading"]
        /\ kbd' = << >>
        /\ UNCHANGED padReaderFrame

\* stop_reading, lines 72-76: running is cleared and the thread joined; the
\* thread leaves its loop at the next test of line 82
P_StopReading ==
    \E pad \in DOMAIN readers :
        /\ readers' = [readers EXCEPT
               ![pad].running = FALSE,
               ![pad].thread = IF readers[pad].thread = "alive" THEN "ended"
                                                                ELSE readers[pad].thread,
               ![pad].last_call = "stop_reading"]
        /\ kbd' = << >>
        /\ UNCHANGED padReaderFrame

\* _read_loop, lines 82-87: a read of the open device and _process_input
P_Read ==
    \E pad \in DOMAIN readers, data \in {<<b, 0, 0, 0>> : b \in 0 .. 3} \cup {<<1, 0, 0>>, << >>} :
        LET r == IF data # << >> /\ Len(data) >= 4
                 THEN process_input_of(pad, 1, data[1], readers[pad].button_states, << >>)
                 ELSE [states |-> readers[pad].button_states, sent |-> << >>]
        IN  /\ readers[pad].thread = "alive"
            /\ readers[pad].running
            /\ readers[pad].device = "open"
            /\ readers' = [readers EXCEPT ![pad].button_states = r.states,
                                          ![pad].last_call = "read"]
            /\ kbd' = r.sent
            /\ UNCHANGED padReaderFrame

\* _read_loop, lines 89-91: the read raises (always when the device is None
\* or was never opened) and the thread ends
P_ReadError ==
    \E pad \in DOMAIN readers :
        /\ readers[pad].thread = "alive"
        /\ readers[pad].running
        /\ readers' = [readers EXCEPT ![pad].thread = "ended",
                                      ![pad].last_call = "read_error"]
        /\ kbd' = << >>
        /\ UNCHANGED padReaderFrame

InitPadReader ==
    /\ InitMac
    /\ InitReaderState
    /\ program = "ddr_gamepad_reader"
    /\ pad_index \in {1, 2}
    /\ emitter = None
    /\ main_pc = "idle"
    /\ last_hat = NoHat
    /\ devices \in GamepadEnumerations
    /\ serials = << >>
    /\ hid_devices = << >>
    /\ hid_log = << >>
    /\ started_hid = FALSE
    /\ command_pc = "not_started"
    /\ eof_seen = FALSE
    /\ platform = [iokit |-> FALSE, quartz |-> FALSE]
    /\ readers = [pad \in {pad_index} |-> NewPadReader]
    /\ virtual_keyboards = EmptyMap
    /\ last_read = NoRead
    /\ quartz_down = {}

NextPadReader ==
    P_Connect \/ P_Disconnect \/ P_StartReading \/ P_StopReading \/ P_Read \/ P_ReadError

SpecPadReader == InitPadReader /\ [][NextPadReader]_vars

-----------------------------------------------------------------------------
(* Properties of the Identity Binder (ddr_mac_handler.py), under Spec *)

\* C1: after start_calibration, once a device X and then a different device Y
\* have pressed (releases and further presses of X in between), calibration
\* has ended and device_assignments is exactly {X: 1, Y: 2}.
C1_TwoPadsBound ==
    (calStarted /\ Len(pressOrder) = 2) =>
        /\ calibration_mode = FALSE
        /\ device_assignments = (pressOrder[1] :> 1) @@ (pressOrder[2] :> 2)

C1_Witness ==
    /\ calStarted
    /\ Len(pressOrder) = 2
    /\ dialog = "Calibration Complete!"

\* C2: while only the device X bound to player 1 has pressed since
\* start_calibration, however often, the binder stays in step 2 with
\* calibration_mode true, device_assignments exactly {X: 1} and nobody bound
\* to player 2.
C2_SamePadRejected ==
    (calStarted /\ Len(pressOrder) = 1) =>
        /\ calibration_mode = TRUE
        /\ calibration_step = 2
        /\ device_assignments = (pressOrder[1] :> 1)
        /\ calibrated_devices = <<pressOrder[1]>>
        /\ \A d \in DOMAIN device_assignments : device_assignments[d] # 2

C2_Witness ==
    /\ calStarted
    /\ Len(pressOrder) = 1
    /\ dialog = "Same Device"
    /\ lastOp.dev = pressOrder[1]

\* C3: device_assignments is an injective partial map from device ids into
\* {1, 2}: no player number is held by two devices.
C3_InjectiveBinding ==
    /\ DOMAIN device_assignments \subseteq Devices
    /\ \A d \in DOMAIN device_assignments : device_assignments[d] \in {1, 2}
    /\ \A d1, d2 \in DOMAIN device_assignments :
          device_assignments[d1] = device_assignments[d2] => d1 = d2

C3_Witness ==
    /\ Cardinality(DOMAIN device_assignments) = 2
    /\ calibration_mode = FALSE

\* C4: start_calibration, from any state, leaves calibration_mode true,
\* calibration_step 1, calibrated_devices empty and device_assignments empty.
C4_StartCalibrationResets ==
    lastOp.op = "start_calibration" =>
        /\ calibration_mode = TRUE
        /\ calibration_step = 1
        /\ calibrated_devices = << >>
        /\ device_assignments = EmptyMap

\* start_calibration issued after a completed calibration, with a hold active
C4_Witness ==
    /\ lastOp.op = "start_calibration"
    /\ DOMAIN held_keys # {}

\* C5: in every state where calibration_mode is true, the step that led to
\* it emitted no player output (send_player_input was not executed).
C5_NoOutputDuringCalibration ==
    calibration_mode => out = << >>

-----------------------------------------------------------------------------
(* Properties of the Hold Repeater (ddr_mac_handler.py), under Spec *)

\* C9: a start_hold_input for a key that is already held changes nothing and
\* emits nothing; a start_hold_input for a key that is not held emits exactly
\* one output; either way exactly one timer exists for the key afterwards.
C9_PressIdempotent ==
    [][ (lastOp'.op = "event" /\ lastOp'.route = "start_hold") =>
          LET key_id == <<lastOp'.dev, lastOp'.dir>>
          IN  /\ key_id \in DOMAIN held_keys =>
                    (out' = << >> /\ held_keys' = held_keys /\ timers' = timers)
              /\ key_id \notin DOMAIN held_keys => Len(out') = 1
              /\ key_id \in DOMAIN held_keys'
              /\ Cardinality({t \in timers' : t.key = key_id}) = 1 ]_vars

\* a press of a key that was already held: routed to start_hold_input, no output
C9_Witness ==
    /\ lastOp.op = "event"
    /\ lastOp.route = "start_hold"
    /\ <<lastOp.dev, lastOp.dir>> \in DOMAIN held_keys
    /\ out = << >>

\* C18: every physical release on a device removes the held_keys entry of
\* that (device, direction): after the button-up of a mapped button, and after
\* a hat has moved to a direction and back to neutral (0, 0), no entry (and so
\* no repetition) is left for the key, also when calibration commands are
\* interleaved.
C18_ReleaseRemovesEntry ==
    [][ \A device_id \in Devices :
          /\ \A button \in DOMAIN button_map :
                InputEvent(device_id, PygameEvent("JOYBUTTONUP", button, <<0, 0>>, None)) =>
                    <<device_id, button_map[button]>> \notin DOMAIN held_keys'
          /\ (/\ last_hat.dev = device_id
              /\ InputEvent(device_id, PygameEvent("JOYHATMOTION", -1, <<0, 0>>, None))) =>
                    <<device_id, last_hat.dir>> \notin DOMAIN held_keys' ]_vars

\* C31: every output emitted on behalf of a device, by the press itself or by
\* a timer repetition, uses the key table of the player the device is bound
\* to in device_assignments when it is emitted; a device with no binding
\* causes no output.
C31_OutputFollowsBinding ==
    \A i \in 1 .. Len(out) :
        LET device_id == out[i].key[1]
        IN  /\ device_id \in DOMAIN device_assignments
            /\ out[i].player = device_assignments[device_id]
            /\ out[i].sym = (IF device_assignments[device_id] = 1 THEN p1_keys
                                                                   ELSE p2_keys)[out[i].key[2]]

-----------------------------------------------------------------------------
(* Properties of the Edge Detector and Report Decoder, under SpecReports *)

\* number of events in one of events.down / events.up
Total(bag) == bag["left"] + bag["down"] + bag["up"] + bag["right"]

\* the directions held in an 8-byte report: bytes 2..7 through _hid_keycode_to_dir
DirsOfReport(r) == {hid_keycode_to_dir(r[i]) : i \in 3 .. 8} \ {None}

\* the mapped key codes in bytes 2..7 of an 8-byte report
KnownCodes(r) == {r[i] : i \in 3 .. 8} \cap DOMAIN hid_mapping

Zero8 == <<0, 0, 0, 0, 0, 0, 0, 0>>

OnlyDown(d) == [down |-> [x \in Directions |-> IF x = d THEN 1 ELSE 0],
                up |-> [x \in Directions |-> 0]]

OnlyUp(d) == [down |-> [x \in Directions |-> 0],
              up |-> [x \in Directions |-> IF x = d THEN 1 ELSE 0]]

\* C6: for two consecutive 8-byte reports of the device with decoded direction
\* sets A then B, the loop emits exactly |B \ A| press events and |A \ B|
\* release events and the tracked previous state then decodes to B.
C6_EdgeCounts ==
    [][ (had_data' /\ Len(last_report) = 8 /\ Len(last_report') = 8) =>
          LET A == DirsOfReport(last_report)
              B == DirsOfReport(last_report')
          IN  /\ Total(events'.down) = Cardinality(B \ A)
              /\ Total(events'.up) = Cardinality(A \ B)
              /\ {hid_keycode_to_dir(kc) : kc \in prev_keys'} \ {None} = B ]_vars

\* C7: a read that returns the same report as the read before emits no
\* press/release event and no output, in _hid_device_loop (no DOWN/UP event,
\* no send_usages, no Quartz event) and in _process_input (no keyboard call).
C7_SameReportNoEvents ==
    (had_data /\ repeated) =>
        /\ events = NoEvents
        /\ vk_sends = 0
        /\ cg_posted = {}
        /\ kbd = << >>

\* the same report read twice while a mapped key is held in it
C7_Witness ==
    /\ program = "main"
    /\ had_data
    /\ repeated
    /\ Len(last_report) = 8
    /\ DirsOfReport(last_report) # {}
    /\ prev_keys # {}

\* C8: with nothing held before (no report yet, or an all-zero report), an
\* 8-byte report holding one mapped key code c gives exactly one press of
\* direction(c) (left for 0x04) and no release; an all-zero report after a
\* report holding one mapped code c gives exactly one release of direction(c)
\* and no press; unmapped codes and zero bytes give no event.
C8_PressThenRelease ==
    [][ had_data' =>
          LET r == last_report
              q == last_report'
              nothing_held == (r = << >> \/ r = Zero8)
          IN  /\ (nothing_held /\ Len(q) = 8 /\ Cardinality(KnownCodes(q)) = 1) =>
                    \E c \in KnownCodes(q) :
                        /\ events' = OnlyDown(hid_mapping[c])
                        /\ c = 4 => events'.down["left"] = 1
              /\ (nothing_held /\ Len(q) = 8 /\ KnownCodes(q) = {}) =>
                    events' = NoEvents
              /\ (Len(r) = 8 /\ Cardinality(KnownCodes(r)) = 1 /\ q = Zero8) =>
                    \E c \in KnownCodes(r) :
                        /\ events' = OnlyUp(hid_mapping[c])
                        /\ c = 4 => events'.up["left"] = 1 ]_vars

\* the report [0,0,0x04,0,0,0,0,0] then the all-zero report: left was released
C8_Witness ==
    /\ program = "main"
    /\ had_data
    /\ last_report = Zero8
    /\ events = OnlyUp("left")
    /\ prev_keys = {}

\* the usages in the report most recently sent to the virtual keyboard
VkUsages == IF vk_last = << >> THEN {} ELSE {vk_last[i] : i \in 3 .. 8} \ {0}

\* C12: after every processed report of a pad with a virtual keyboard, the
\* usage set most recently sent to it is the image, under the pad's
\* direction-to-usage table, of the directions decoded from that latest report
\* (several directions together; a direction held via an alternate key code
\* stays reported).
C12_VkMatchesReport ==
    (program = "main" /\ emitter = "vk" /\ last_report # << >>) =>
        VkUsages = {usage_of(pad_index, d) :
                      d \in {hid_keycode_to_dir(kc) : kc \in report_keys(last_report)} \ {None}}

\* C22: in _hid_device_loop a non-empty report shorter than 8 bytes emits no
\* press or release event, sends no output and leaves the tracked previous
\* key set unchanged, whatever keys were held before it.
C22_ShortReportNoOp ==
    [][ (program = "main" /\ had_data' /\ Len(last_report') < 8) =>
          /\ events' = NoEvents
          /\ vk_sends' = 0
          /\ cg_posted' = {}
          /\ prev_keys' = prev_keys ]_vars

\* the attribute of the PadMapping of the pad that holds the output key
key_attr_of(pad, key_name) ==
    CHOOSE key_attr \in DOMAIN pad_mapping[pad] : pad_mapping[pad][key_attr] = key_name

\* C32: from a fresh DDRPadReader on, the key events sent for each output key
\* alternate press, release, press, ..., beginning with a press: a release is
\* sent only for a key whose latest sent event is a press, and a press only
\* for a key that is not down; the first report sends no release.
C32_PressReleaseAlternate ==
    [][ program = "ddr_gamepad_reader" =>
          \A i \in 1 .. Len(kbd') :
              LET key_attr == key_attr_of(pad_index, kbd'[i].key)
                  was_down == key_attr \in DOMAIN button_states /\ button_states[key_attr]
              IN  (kbd'[i].op = "release") = was_down ]_vars

-----------------------------------------------------------------------------
(* Properties of the Hold Repeater under thread interleaving *)

\* C10: once stop_hold_input(device, direction) has returned, no output is
\* emitted for that key until the next press of it, under every interleaving
\* of repeat_input with stop_hold_input (checked under SpecThreads).
C10_NoOutputAfterRelease ==
    \A i \in 1 .. Len(out) : out[i].key \notin released

\* C19: under every interleaving of start_hold_input and stop_hold_input with
\* repeat_input callbacks, at most one scheduled timer (started, not
\* cancelled, not yet fired) exists for each (device, direction) key, and
\* every scheduled timer is the one held_keys refers to for its key.
C19_OneLiveTimerPerKey ==
    \A t \in timers :
        t.pc = "waiting" =>
            /\ t.key \in DOMAIN held_keys
            /\ held_keys[t.key] = t.n
            /\ \A u \in timers : (u.key = t.key /\ u.pc = "waiting") => u = t

\* C11: after cleanup() has returned, no output is emitted by any hold timer
\* or by the input thread, under every interleaving of cleanup with
\* repeat_input callbacks in flight and with the input loop.
C11_NoOutputAfterCleanup ==
    main_pc = "returned" => out = << >>

\* C20: once cleanup() has returned, held_keys is empty and no hold timer
\* remains scheduled, under every interleaving of cleanup with repeat_input
\* callbacks that are rescheduling themselves.
C20_AllCancelledAfterCleanup ==
    main_pc = "returned" =>
        /\ held_keys = EmptyMap
        /\ \A t \in timers : t.pc # "waiting"

-----------------------------------------------------------------------------
(* Properties of the Identity Binder under thread interleaving *)

\* C21: under every interleaving of start_calibration on the command thread
\* with handle_calibration_input on the input thread, whenever
\* calibration_mode is false after a calibration was started,
\* device_assignments holds exactly one device for player 1 and a different
\* device for player 2, and no step raises an error (such as indexing an
\* empty calibrated_devices).
C21_NeverPartiallyCommitted ==
    /\ input_pc.pc # "index_error"
    /\ (calStarted /\ ~calibration_mode) =>
          \E x, y \in Devices :
              /\ x # y
              /\ device_assignments = (x :> 1) @@ (y :> 2)

\* C24: once running is false because the input loop received a QUIT
\* event, the command loop of run() exits and cleanup() executes without any
\* further line of operator input.
C24_QuitReachesCommandLoop ==
    (~running /\ main_pc \in {"command", "loop_test"}) ~> (main_pc = "returned")

-----------------------------------------------------------------------------
(* Properties of start_hid_logging and of the session of src/main.py,      *)
(* under SpecSession and SpecSessionFair                                   *)

\* the serial numbers present in an enumeration result
RawSerials(devs) == {devs[i].serial_number : i \in 1 .. Len(devs)} \ {<< >>}

\* the keys start_hid_logging groups an enumeration result by
GroupKeys(devs) == {serial_key(devs[i]) : i \in 1 .. Len(devs)}

\* two holds the smallest and the next smallest element of S, in this order
IsFirstTwo(S, two) ==
    /\ Len(two) = 2
    /\ two[1] \in S
    /\ \A x \in S \ {two[1]} : LexLess(two[1], x)
    /\ two[2] \in S \ {two[1]}
    /\ \A x \in S \ {two[1], two[2]} : LexLess(two[2], x)

C14_EofShutsDown ==
    eof_seen ~> (/\ ~running
                 /\ main_pc = "done"
                 /\ \A i \in 1 .. Len(hid_devices) : hid_devices[i].task = "closed")

\* C23: once the running flag is false (by 'q' or by cleanup), every reader
\* task, the command task and the idle loop observe it and terminate, and
\* every reader task has closed its device handle when the session ends.
C23_AllClosedAtSessionEnd ==
    main_pc = "exited" =>
        /\ ~running
        /\ command_pc = "exited"
        /\ \A i \in 1 .. Len(hid_devices) : hid_devices[i].task = "closed"

\* C26: for any enumeration result, at most one handle is opened per serial
\* and at most two serials are used; the interface opened for a pad is a
\* usage-6 interface of that pad, the one with the lowest interface_number,
\* never a non-keyboard interface; the pad_index values of the started
\* reader tasks are pairwise distinct.
C26_OneInterfacePerPad ==
    [][ (main_pc = "start" /\ main_pc' = "spawn") =>
          /\ Len(hid_devices') <= 2
          /\ Len(serials') <= 2
          /\ \A i, j \in 1 .. Len(hid_devices') :
                i # j => /\ hid_devices'[i].sn # hid_devices'[j].sn
                         /\ hid_devices'[i].pad_index # hid_devices'[j].pad_index
          /\ \A i \in 1 .. Len(hid_devices') :
                LET h == hid_devices'[i]
                IN  /\ h.usage = 6
                    /\ h.task = "running"
                    /\ \E m \in 1 .. Len(serials') : serials'[m] = h.sn
                    /\ \E m \in 1 .. Len(devices) :
                          /\ serial_key(devices[m]) = h.sn
                          /\ devices[m].usage = 6
                          /\ devices[m].interface_number = h.interface_number
                    /\ \A m \in 1 .. Len(devices) :
                          (serial_key(devices[m]) = h.sn /\ devices[m].usage = 6) =>
                              h.interface_number <= devices[m].interface_number ]_vars

\* both pads opened on a keyboard interface, pad 1 on interface 0 and pad 2
\* on interface 1
C26_Witness ==
    /\ main_pc = "spawn"
    /\ Len(hid_devices) = 2
    /\ hid_devices[1].pad_index = 1 /\ hid_devices[1].usage = 6
    /\ hid_devices[1].interface_number = 0
    /\ hid_devices[2].pad_index = 2 /\ hid_devices[2].usage = 6
    /\ hid_devices[2].interface_number = 1

\* the descriptors come from at least two physical pads: two of them carry
\* different serial numbers, or two of them are the same interface (same
\* usage and interface_number), which one pad has only once
AtLeastTwoPads(devs) ==
    \E i, j \in 1 .. Len(devs) :
        /\ i # j
        /\ \/ /\ devs[i].serial_number # << >>
              /\ devs[j].serial_number # << >>
              /\ devs[i].serial_number # devs[j].serial_number
           \/ /\ devs[i].usage = devs[j].usage
              /\ devs[i].interface_number = devs[j].interface_number

\* every descriptor is a keyboard interface that can be opened
AllKeyboardsOpen(devs) ==
    \A m \in 1 .. Len(devs) : devs[m].usage = 6 /\ devs[m].opens

\* C29: whenever the enumeration returns descriptors of at least two
\* physical pads (all of them keyboard interfaces that open), two pads are
\* bound to players 1 and 2, also when the serial_number fields of the pads
\* are absent or empty.
C29_TwoPadsAlwaysBound ==
    [][ (main_pc = "start" /\ main_pc' = "spawn"
           /\ AtLeastTwoPads(devices) /\ AllKeyboardsOpen(devices)) =>
          /\ started_hid'
          /\ Len(hid_devices') = 2
          /\ hid_devices'[1].pad_index = 1
          /\ hid_devices'[2].pad_index = 2 ]_vars

\* C15: when the selected interface of one of the two pads cannot be opened
\* and that of the other pad can, a reader task is started for the other
\* pad, with the pad_index its serial has in serial order, and the process
\* goes on.
C15_OpenFailureNonFatal ==
    [][ (main_pc = "start" /\ main_pc' = "spawn" /\ Len(serials') = 2) =>
          \A p \in {1, 2} :
              LET q == 3 - p
                  selected(j) == keyboard_infos(devices, serials'[j])
                  open_fails(j) == selected(j) # << >> /\ ~lowest_interface(selected(j)).opens
                  open_works(j) == selected(j) # << >> /\ lowest_interface(selected(j)).opens
              IN  (open_fails(p) /\ open_works(q)) =>
                      /\ Len(hid_devices') = 1
                      /\ hid_devices'[1].pad_index = q
                      /\ hid_devices'[1].sn = serials'[q]
                      /\ hid_devices'[1].task = "running"
                      /\ running' ]_vars

\* the first pad could not be opened, the reader of the second runs as pad 2
C15_Witness ==
    /\ main_pc = "idle"
    /\ running
    /\ Len(hid_log) = 1
    /\ hid_log[1].pad_index = 1
    /\ hid_log[1].why = "open_failed"
    /\ Len(hid_devices) = 1
    /\ hid_devices[1].pad_index = 2
    /\ hid_devices[1].task = "running"

\* C16: start_hid_logging returns True only if reader tasks were started for
\* two devices; with fewer than two pads opened it returns False.
C16_TrueOnlyIfTwo ==
    (main_pc # "start" /\ started_hid) => Len(hid_devices) = 2

-----------------------------------------------------------------------------
(* Properties of the reader threads of src/main.py, under SpecReaders *)

OneKeyReports == {ReportOf(K, FALSE) : K \in {S \in SUBSET PadCodes : Cardinality(S) <= 1}}

\* the iterations of the two readers on the reports d1 and d2 give the same
\* locals and the same keyboard reports in both orders
ReadsCommute(rs, vks) ==
    \A d1, d2 \in OneKeyReports :
        LET a == reader_step(rs, vks, 1, FALSE, d1)
            ab == reader_step(a.readers, a.virtual_keyboards, 2, FALSE, d2)
            b == reader_step(rs, vks, 2, FALSE, d2)
            ba == reader_step(b.readers, b.virtual_keyboards, 1, FALSE, d1)
        IN  /\ ab.readers = ba.readers
            /\ ab.virtual_keyboards = ba.virtual_keyboards

\* C27: processing a report of one pad changes only that pad's previous key
\* set, held directions and last-sent output report; those of the other pad
\* are unchanged, so the reads of the two pads give the same per-pad results
\* in either order.
C27_CrossDeviceIndependence ==
    /\ [][ \A pad \in Pads :
             last_read'.pad = pad =>
                 \A other \in Pads \ {pad} :
                     /\ readers'[other] = readers[other]
                     /\ other \in DOMAIN virtual_keyboards =>
                           virtual_keyboards'[other] = virtual_keyboards[other] ]_vars
    /\ [] ReadsCommute(readers, virtual_keyboards)

\* pad 2 reported down while pad 1 holds left: each keyboard has its own report
C27_Witness ==
    /\ last_read.pad = 2
    /\ readers[1].prev_keys = {4}
    /\ readers[2].prev_keys = {22}
    /\ DOMAIN virtual_keyboards = {1, 2}
    /\ virtual_keyboards[1] = <<0, 0, 7, 0, 0, 0, 0, 0>>
    /\ virtual_keyboards[2] = <<0, 0, 14, 0, 0, 0, 0, 0>>

\* C28: when no virtual keyboard can be used for a pad (IOKit absent or the
\* creation of the device fails), every press / release event of the pad is
\* still printed as a log line and the unavailability is surfaced as a
\* warning exactly once for that pad, never once per event.
C28_InjectionUnavailableWarnedOnce ==
    [][ \A pad \in Pads :
          (readers[pad].task = "polling" /\ readers[pad].emitter # "vk") =>
              /\ readers[pad].warnings = 1
              /\ readers'[pad].warnings = 1
              /\ last_read'.pad = pad =>
                    \A d \in Directions :
                        /\ last_read'.events.down[d] =
                              DirCount(readers'[pad].prev_keys \ readers[pad].prev_keys, d)
                        /\ last_read'.events.up[d] =
                              DirCount(readers[pad].prev_keys \ readers'[pad].prev_keys, d) ]_vars

\* C34: when the session stops while directions are held, every output key
\* that is down is released before the reader ends: once the reader of a pad
\* with a virtual keyboard has closed its device, the last report sent to
\* that virtual keyboard is the empty one (or none was sent).
C34_NoStuckKeysAtShutdown ==
    \A pad \in Pads :
        (readers[pad].task = "closed" /\ readers[pad].emitter = "vk") =>
            virtual_keyboards[vk_slot(pad)] \in {<< >>, send_usages({})}

-----------------------------------------------------------------------------
(* Properties of the output paths of emit (src/main.py), under SpecEmit *)

\* the keycodes of the usages held in an 8-byte report
keycodes_of_report(report) ==
    {usage_to_keycode[u] : u \in ({report[i] : i \in 3 .. Len(report)} \ {0})
                                   \cap DOMAIN usage_to_keycode}

\* C35: for every sequence of reports of a pad, after each emit call the set of
\* keycodes that are down according to the Quartz key events equals the key
\* set of the full report the virtual-keyboard path sends, mapped through
\* usage_to_keycode; every direction of both pads has a keycode.
C35_OutputStrategiesAgree ==
    /\ \A i \in 1 .. Len(last_read.emits) :
           /\ last_read.emits[i].quartz_down = keycodes_of_report(last_read.emits[i].report)
           /\ Cardinality(last_read.emits[i].quartz_down)
                  = Cardinality(last_read.emits[i].held_dirs)
    /\ \A pad \in DOMAIN pad_usages : \A d \in Directions :
           usage_of(pad, d) \in DOMAIN usage_to_keycode

\* two emit calls in one read, a key-up among them, and a key still down
C35_Witness ==
    /\ Len(last_read.emits) >= 2
    /\ \E i \in 1 .. Len(last_read.emits) : ~last_read.emits[i].is_down
    /\ quartz_down # {}
    /\ held_dirs # {}

-----------------------------------------------------------------------------
(* Properties of the session of src/ddr_gamepad_reader.py, under SpecGamepad *)

\* C30: a failure to open one pad does not stop the pipeline of the other
\* pad: once main() is past its two connect calls, the pad that can be
\* connected is read and remapped (until the session is stopped by Ctrl+C).
C30_OpenFailureIsolated ==
    \A pad \in {1, 2} :
        (/\ main_pc \in {"returned", "sleeping"}
         /\ connect(pad, devices)
         /\ ~connect(3 - pad, devices)) =>
            readers[pad].task = "reading"

\* C33: whenever connect() returns False (the pad is not listed, or open_path
\* raised), self.device is None, and a start_reading() that follows starts no
\* thread and leaves running false.
C33_FailedConnectUnconnected ==
    [][ \A pad \in DOMAIN readers :
          /\ readers'[pad].last_call = "connect_false" => readers'[pad].device = "None"
          /\ (readers[pad].last_call = "connect_false"
              /\ readers'[pad].last_call = "start_reading") =>
                 (readers'[pad].thread # "alive" /\ ~readers'[pad].running) ]_vars

-----------------------------------------------------------------------------
(* Properties of the output tables of the three programs, under SpecPrograms *)

RangeOf(f) == {f[x] : x \in DOMAIN f}

\* tables t1 and t2 map the four directions one-to-one and share no symbol
DistinctTables(t1, t2) ==
    /\ DOMAIN t1 = Directions
    /\ DOMAIN t2 = Directions
    /\ \A a, b \in Directions : (t1[a] = t1[b] \/ t2[a] = t2[b]) => a = b
    /\ RangeOf(t1) \cap RangeOf(t2) = {}

\* the direction-to-key tables of the two PadMappings of ddr_gamepad_reader
reader_keys(pad) ==
    [d \in Directions |-> pad_mapping[pad][IF d = "up" THEN "up_key"
                                           ELSE IF d = "down" THEN "down_key"
                                           ELSE IF d = "left" THEN "left_key"
                                           ELSE "right_key"]]

\* C17: in each program the output tables of the two players are one-to-one
\* on the four directions and disjoint (p1_keys / p2_keys, pad_usages[1] /
\* pad_usages[2], the pad1 / pad2 mappings), and an event of a pad only
\* emits symbols of that pad's own table.
C17_DistinctOutputs ==
    /\ DistinctTables(p1_keys, p2_keys)
    /\ DistinctTables(pad_usages[1], pad_usages[2])
    /\ DistinctTables(reader_keys(1), reader_keys(2))
    /\ lastOp.op = "event" =>
          \A i \in 1 .. Len(out) :
              /\ out[i].key[1] = lastOp.dev
              /\ lastOp.dev \in DOMAIN device_assignments
              /\ out[i].sym \in RangeOf(IF device_assignments[lastOp.dev] = 1
                                        THEN p1_keys ELSE p2_keys)
    /\ program = "main" =>
          /\ VkUsages \subseteq RangeOf(pad_usages[pad_index])
          /\ \A e \in cg_posted :
                e.keycode \in {usage_to_keycode[u] : u \in RangeOf(pad_usages[pad_index])}
    /\ program = "ddr_gamepad_reader" =>
          \A i \in 1 .. Len(kbd) : kbd[i].key \in RangeOf(reader_keys(pad_index))

\* a press on the pad bound to player 2 emitted F1
C17_Witness ==
    /\ lastOp.op = "event"
    /\ lastOp.route = "start_hold"
    /\ device_assignments[lastOp.dev] = 2
    /\ Len(out) = 1
    /\ out[1].sym = "Key.f1"

====
